---- MODULE Spec2Model ----
(***************************************************************************)
(* A model of the spatial transform and snapping engine of                 *)
(* react-svg-canvas: rotation geometry, snap-target generation, drag snap  *)
(* scoring and selection, pivot compensation and rotation-aware resize.    *)
(*                                                                         *)
(* Numbers.  The program computes with IEEE doubles.  The model computes   *)
(* with exact fixed-point numbers: a real r is the integer r * Unit.  All  *)
(* inputs are chosen so that every product and quotient the code forms is  *)
(* exactly representable, hence the arithmetic is the real arithmetic of   *)
(* the formulas.  The one double that is not a real, NaN, is modelled      *)
(* where the code can produce it (0/0 in the distance score).              *)
(***************************************************************************)
EXTENDS Integers, Sequences, FiniteSets, TLC

\* One unit of the fixed-point representation (three decimal digits).
Unit == 10 * 10 * 10

\* n pixels (or the plain number n) as a fixed-point number.
P(n) == n * Unit

Half == Unit \div 2

\* Fixed-point product and quotient.
Mul(a, b) == (a * b) \div Unit
Div(a, b) == (a * Unit) \div b

Abs(a) == IF a < 0 THEN -a ELSE a
Min2(a, b) == IF a <= b THEN a ELSE b
Max2(a, b) == IF a >= b THEN a ELSE b
Sign(a) == IF a > 0 THEN Unit ELSE IF a < 0 THEN -Unit ELSE 0

\* An absent optional number (pivotX?: number) and an absent optional id.
Undefined == -(Unit * Unit)
NoId == "undefined"

RECURSIVE SeqMin(_)
SeqMin(s) == IF Len(s) = 1 THEN s[1] ELSE Min2(s[1], SeqMin(Tail(s)))

RECURSIVE SeqMax(_)
SeqMax(s) == IF Len(s) = 1 THEN s[1] ELSE Max2(s[1], SeqMax(Tail(s)))

RECURSIVE Flatten(_)
Flatten(ss) == IF ss = <<>> THEN <<>> ELSE Head(ss) \o Flatten(Tail(ss))

\* The subsequences of s of length at most n (the elements keep their order).
SubSeq1(s, I) ==
    LET F[k \in 0..Len(s)] ==
            IF k = 0 THEN <<>>
            ELSE IF k \in I THEN Append(F[k - 1], s[k]) ELSE F[k - 1]
    IN F[Len(s)]

SubSeqsUpTo(s, n) ==
    {SubSeq1(s, I) : I \in {J \in SUBSET (1..Len(s)) : Cardinality(J) <= n}}

(***************************************************************************)
(* Trigonometry.  Math.cos and Math.sin at the angles the model uses: the  *)
(* multiples of 90 degrees and the angles of the 3-4-5 triangle,           *)
(* atan(4/3) = 53.130... and atan(3/4) = 36.870... degrees (53130 and      *)
(* 36870 in fixed point), their supplements and their negatives, where     *)
(* cosine and sine are rational.  degToRad is absorbed: the operators take *)
(* degrees.                                                                *)
(***************************************************************************)
Atan43 == 53 * Unit + 130
Atan34 == P(90) - Atan43

RightAngles == {P(0), P(90), P(180), P(270), P(360)}
SkewAngles == {Atan43, Atan34, P(180) - Atan43}

Angles == RightAngles \cup SkewAngles \cup {-a : a \in RightAngles \cup SkewAngles}

Cos(deg) ==
    CASE Abs(deg) \in {P(0), P(360)} -> Unit
      [] Abs(deg) \in {P(90), P(270)} -> 0
      [] Abs(deg) = P(180) -> -Unit
      [] Abs(deg) = Atan43 -> 3 * (Unit \div 5)
      [] Abs(deg) = Atan34 -> 4 * (Unit \div 5)
      [] Abs(deg) = P(180) - Atan43 -> -3 * (Unit \div 5)

Sin(deg) ==
    LET s == CASE Abs(deg) \in {P(0), P(180), P(360)} -> 0
               [] Abs(deg) = P(90) -> Unit
               [] Abs(deg) = P(270) -> -Unit
               [] Abs(deg) \in {Atan43, P(180) - Atan43} -> 4 * (Unit \div 5)
               [] Abs(deg) = Atan34 -> 3 * (Unit \div 5)
    IN IF deg < 0 THEN -s ELSE s

(***************************************************************************)
(* Rotation geometry (snapping/rotation-utils).                            *)
(***************************************************************************)
Pt(x, y) == [x |-> x, y |-> y]

\* pivotX ?? 0.5
OrHalf(p) == IF p = Undefined THEN Half ELSE p

getRotatedBoundsCenter(bounds) ==
    Pt(bounds.x + Mul(bounds.width, OrHalf(bounds.pivotX)),
       bounds.y + Mul(bounds.height, OrHalf(bounds.pivotY)))

rotatePointAround(point, center, angleDegrees) ==
    LET cos == Cos(angleDegrees)
        sin == Sin(angleDegrees)
        dx == point.x - center.x
        dy == point.y - center.y
    IN Pt(center.x + Mul(dx, cos) - Mul(dy, sin),
          center.y + Mul(dx, sin) + Mul(dy, cos))

UnrotatedCorners(bounds) ==
    << Pt(bounds.x, bounds.y),
       Pt(bounds.x + bounds.width, bounds.y),
       Pt(bounds.x + bounds.width, bounds.y + bounds.height),
       Pt(bounds.x, bounds.y + bounds.height) >>

getRotatedCorners(bounds) ==
    IF bounds.rotation # 0
    THEN [i \in 1..4 |-> rotatePointAround(UnrotatedCorners(bounds)[i],
                                           getRotatedBoundsCenter(bounds),
                                           bounds.rotation)]
    ELSE UnrotatedCorners(bounds)

Xs(corners) == [i \in 1..Len(corners) |-> corners[i].x]
Ys(corners) == [i \in 1..Len(corners) |-> corners[i].y]

\* The snap points of a shape with the given sides, pivot and corners.
SnapPointsOf(left, right, top, bottom, pivot, corners) ==
    [left |-> left, right |-> right, top |-> top, bottom |-> bottom,
     centerX |-> (left + right) \div 2, centerY |-> (top + bottom) \div 2,
     pivotX |-> pivot.x, pivotY |-> pivot.y, corners |-> corners]

\* The axis-aligned bounding box of the corners, with the pivot.
CornerSnapPoints(corners, pivot) ==
    SnapPointsOf(SeqMin(Xs(corners)), SeqMax(Xs(corners)),
                 SeqMin(Ys(corners)), SeqMax(Ys(corners)), pivot, corners)

getRotatedSnapPoints(bounds) ==
    CornerSnapPoints(getRotatedCorners(bounds), getRotatedBoundsCenter(bounds))

getSnapPoints(bounds) ==
    IF bounds.rotation # 0
    THEN getRotatedSnapPoints(bounds)
    ELSE [left |-> bounds.x, right |-> bounds.x + bounds.width,
          top |-> bounds.y, bottom |-> bounds.y + bounds.height,
          centerX |-> bounds.x + bounds.width \div 2,
          centerY |-> bounds.y + bounds.height \div 2,
          pivotX |-> getRotatedBoundsCenter(bounds).x,
          pivotY |-> getRotatedBoundsCenter(bounds).y,
          corners |-> UnrotatedCorners(bounds)]

\* obj: [id, bounds: [x, y, width, height], rotation, pivotX, pivotY]
ObjRotatedBounds(obj) ==
    [x |-> obj.bounds.x, y |-> obj.bounds.y,
     width |-> obj.bounds.width, height |-> obj.bounds.height,
     rotation |-> obj.rotation, pivotX |-> obj.pivotX, pivotY |-> obj.pivotY]

\* The rotation ignored: the bounds as stored.
getAABBUnrotated(obj) == obj.bounds

\* { x: minX, y: minY, width: maxX - minX, height: maxY - minY }
BoxOf(minX, maxX, minY, maxY) ==
    [x |-> minX, y |-> minY, width |-> maxX - minX, height |-> maxY - minY]

\* The box spanned by the corners.
CornerBox(corners) ==
    BoxOf(SeqMin(Xs(corners)), SeqMax(Xs(corners)),
          SeqMin(Ys(corners)), SeqMax(Ys(corners)))

getAABB(obj) ==
    IF obj.rotation = 0
    THEN obj.bounds
    ELSE CornerBox(getRotatedCorners([ObjRotatedBounds(obj) EXCEPT
                                         !.pivotX = OrHalf(obj.pivotX),
                                         !.pivotY = OrHalf(obj.pivotY)]))

(***************************************************************************)
(* Snap target generation (snapping/snap-targets.ts).                      *)
(* A target is [type, axis, value, sourceObjectId, sourceEdge, priority];  *)
(* an absent sourceObjectId or sourceEdge is NoId.                         *)
(***************************************************************************)
BASE_PRIORITIES == [edge |-> P(10), center |-> P(8), grid |-> P(5), size |-> P(7)]

DEFAULT_PROXIMITY_MULTIPLIER == 200

Target(type, axis, value, sourceObjectId, sourceEdge, priority) ==
    [type |-> type, axis |-> axis, value |-> value,
     sourceObjectId |-> sourceObjectId, sourceEdge |-> sourceEdge,
     priority |-> priority]

isGeometricallyRelevant(sourceBounds, draggedBounds, axis, proximityThreshold) ==
    LET draggedAABB == getSnapPoints(draggedBounds)
    IN IF axis = "x"
       THEN LET sourceTop == sourceBounds.y
                sourceBottom == sourceBounds.y + sourceBounds.height
                draggedTop == draggedAABB.top
                draggedBottom == draggedAABB.bottom
                hasYOverlap == ~(sourceBottom < draggedTop \/ sourceTop > draggedBottom)
                yDistance == Min2(Abs(sourceBottom - draggedTop),
                                  Abs(sourceTop - draggedBottom))
            IN hasYOverlap \/ yDistance <= proximityThreshold
       ELSE LET sourceLeft == sourceBounds.x
                sourceRight == sourceBounds.x + sourceBounds.width
                draggedLeft == draggedAABB.left
                draggedRight == draggedAABB.right
                hasXOverlap == ~(sourceRight < draggedLeft \/ sourceLeft > draggedRight)
                xDistance == Min2(Abs(sourceRight - draggedLeft),
                                  Abs(sourceLeft - draggedRight))
            IN hasXOverlap \/ xDistance <= proximityThreshold

generateXAxisTargets(object, snapPoints) ==
    << Target("edge", "x", snapPoints.left, object.id, "left", BASE_PRIORITIES.edge),
       Target("edge", "x", snapPoints.right, object.id, "right", BASE_PRIORITIES.edge),
       Target("center", "x", snapPoints.centerX, object.id, "centerX",
              BASE_PRIORITIES.center) >>
    \o (IF snapPoints.pivotX # snapPoints.centerX
        THEN << Target("center", "x", snapPoints.pivotX, object.id, "pivotX",
                       BASE_PRIORITIES.center) >>
        ELSE <<>>)

generateYAxisTargets(object, snapPoints) ==
    << Target("edge", "y", snapPoints.top, object.id, "top", BASE_PRIORITIES.edge),
       Target("edge", "y", snapPoints.bottom, object.id, "bottom", BASE_PRIORITIES.edge),
       Target("center", "y", snapPoints.centerY, object.id, "centerY",
              BASE_PRIORITIES.center) >>
    \o (IF snapPoints.pivotY # snapPoints.centerY
        THEN << Target("center", "y", snapPoints.pivotY, object.id, "pivotY",
                       BASE_PRIORITIES.center) >>
        ELSE <<>>)

\* The targets of an object that is neither excluded nor switched off, given
\* its AABB and snap points.  draggedBounds is an optional argument: <<>> when
\* absent, <<bounds>> otherwise.
RelevantTargets(object, bounds, snapPoints, proximityThreshold, draggedBounds) ==
    IF draggedBounds = <<>>
    THEN generateXAxisTargets(object, snapPoints) \o generateYAxisTargets(object, snapPoints)
    ELSE (IF isGeometricallyRelevant(bounds, draggedBounds[1], "x", proximityThreshold)
          THEN generateXAxisTargets(object, snapPoints) ELSE <<>>)
         \o
         (IF isGeometricallyRelevant(bounds, draggedBounds[1], "y", proximityThreshold)
          THEN generateYAxisTargets(object, snapPoints) ELSE <<>>)

\* The targets one object contributes (the body of generateSnapTargets' loop).
ObjectTargets(object, excludeIds, config, draggedBounds) ==
    IF object.id \in excludeIds \/ ~config.snapToObjects
    THEN <<>>
    ELSE RelevantTargets(object, getAABB(object), getSnapPoints(ObjRotatedBounds(object)),
                         config.snapThreshold * DEFAULT_PROXIMITY_MULTIPLIER,
                         draggedBounds)

generateSnapTargets(objects, excludeIds, config, draggedBounds) ==
    Flatten([i \in 1..Len(objects) |->
                ObjectTargets(objects[i], excludeIds, config, draggedBounds)])

\* Math.floor(a / b) * b and Math.ceil(a / b) * b for b > 0.
FloorTo(a, b) == (a \div b) * b
CeilTo(a, b) == -((-a) \div b) * b

\* for (let v = start; v <= end; v += gridSize) targets.push(...)
RECURSIVE GridLine(_, _, _, _)
GridLine(axis, v, end, gridSize) ==
    IF v <= end
    THEN <<Target("grid", axis, v, NoId, NoId, BASE_PRIORITIES.grid)>>
         \o GridLine(axis, v + gridSize, end, gridSize)
    ELSE <<>>

generateGridTargets(viewBounds, gridSize) ==
    LET margin == gridSize * 2
        startX == FloorTo(viewBounds.x - margin, gridSize)
        endX == CeilTo(viewBounds.x + viewBounds.width + margin, gridSize)
        startY == FloorTo(viewBounds.y - margin, gridSize)
        endY == CeilTo(viewBounds.y + viewBounds.height + margin, gridSize)
    IN GridLine("x", startX, endX, gridSize) \o GridLine("y", startY, endY, gridSize)

generatePageBoundaryTargets(viewBounds) ==
    LET edgePriority == BASE_PRIORITIES.edge + P(2)
        centerPriority == BASE_PRIORITIES.center + P(2)
    IN << Target("edge", "x", viewBounds.x, NoId, "left", edgePriority),
          Target("edge", "x", viewBounds.x + viewBounds.width, NoId, "right", edgePriority),
          Target("edge", "y", viewBounds.y, NoId, "top", edgePriority),
          Target("edge", "y", viewBounds.y + viewBounds.height, NoId, "bottom",
                 edgePriority),
          Target("center", "x", viewBounds.x + viewBounds.width \div 2, NoId, "centerX",
                 centerPriority),
          Target("center", "y", viewBounds.y + viewBounds.height \div 2, NoId, "centerY",
                 centerPriority) >>

generateAllSnapTargets(objects, excludeIds, viewBounds, config, draggedBounds) ==
    (IF config.snapToObjects THEN generatePageBoundaryTargets(viewBounds) ELSE <<>>)
    \o (IF config.snapToObjects \/ config.snapToSizes
        THEN generateSnapTargets(objects, excludeIds, config, draggedBounds)
        ELSE <<>>)
    \o (IF config.snapToGrid THEN generateGridTargets(viewBounds, config.gridSize)
        ELSE <<>>)

(***************************************************************************)
(* Scoring (snapping/snap-engine).  A score is [nan, v, err]: the double   *)
(* is NaN when nan holds; otherwise it is the real v when err = 0, and a   *)
(* double just below (err = -1) or just above (err = 1) the real v when    *)
(* the binary64 operations that computed it rounded.  The rounding error   *)
(* is smaller than any difference between two distinct values of v.        *)
(***************************************************************************)
Num(v) == [nan |-> FALSE, v |-> v, err |-> 0]
NaN == [nan |-> TRUE, v |-> 0, err |-> 0]

DEFAULT_SNAP_CONFIG ==
    [enabled |-> TRUE, snapToGrid |-> TRUE, snapToObjects |-> TRUE, snapToSizes |-> TRUE,
     gridSize |-> P(10), snapThreshold |-> P(8),
     weights |-> [distance |-> P(10), direction |-> P(3), velocity |-> P(2),
                  grabProximity |-> P(5), hierarchy |-> P(4),
                  edgePriority |-> 12 * (Unit \div 10), centerPriority |-> Unit,
                  gridPriority |-> 8 * (Unit \div 10),
                  sizePriority |-> 9 * (Unit \div 10)]]

getGrabProximityWeight(grabPoint, snapEdge) ==
    CASE snapEdge = "left" -> Unit - grabPoint.x
      [] snapEdge = "right" -> grabPoint.x
      [] snapEdge = "top" -> Unit - grabPoint.y
      [] snapEdge = "bottom" -> grabPoint.y
      [] snapEdge \in {"centerX", "pivotX"} -> Unit - Abs(grabPoint.x - Half) * 2
      [] snapEdge \in {"centerY", "pivotY"} -> Unit - Abs(grabPoint.y - Half) * 2

\* getParent is an optional argument: <<>> when absent, <<f>> otherwise, f a
\* function from ids to ids; an id outside its domain has no parent.
ParentOf(f, id) == IF id \in DOMAIN f THEN f[id] ELSE NoId

RECURSIVE ChainFrom(_, _)
ChainFrom(current, f) ==
    IF current # NoId THEN <<current>> \o ChainFrom(ParentOf(f, current), f) ELSE <<>>

getAncestorChain(id, f) == ChainFrom(ParentOf(f, id), f)

\* Array.prototype.indexOf, 0-based, -1 when absent.
IndexOf(s, e) ==
    IF \E i \in 1..Len(s) : s[i] = e
    THEN (CHOOSE i \in 1..Len(s) : s[i] = e /\ \A j \in 1..(i - 1) : s[j] # e) - 1
    ELSE -1

getHierarchyWeight(draggedId, targetSourceId, getParent) ==
    IF targetSourceId = NoId \/ getParent = <<>>
    THEN Half
    ELSE LET draggedAncestors == getAncestorChain(draggedId, getParent[1])
             targetAncestors == getAncestorChain(targetSourceId, getParent[1])
             shared == {i \in 1..Len(draggedAncestors) :
                           IndexOf(targetAncestors, draggedAncestors[i]) >= 0}
         IN IF draggedId = targetSourceId THEN 0
            ELSE IF draggedAncestors # <<>> /\ targetAncestors # <<>>
                    /\ draggedAncestors[1] = targetAncestors[1]
            THEN Unit
            ELSE IF shared # {}
            THEN LET i == CHOOSE k \in shared : \A m \in shared : k <= m
                     targetIndex == IndexOf(targetAncestors, draggedAncestors[i])
                     depth == Max2(i - 1, targetIndex)
                 IN Max2(3 * (Unit \div 10), Unit - depth * 2 * (Unit \div 10))
            ELSE 2 * (Unit \div 10)

getDirectionWeight(movementDirection, currentValue, targetValue, axis) ==
    LET movementComponent == IF axis = "x" THEN movementDirection.x
                             ELSE movementDirection.y
        targetDirection == Sign(targetValue - currentValue)
        dot == Mul(movementComponent, targetDirection)
    IN Max2(0, Half + Mul(dot, Half))

getVelocityWeight(velocity) == Unit - Min2(Div(velocity, P(20)), Unit)

getTypePriorityWeight(target, config) ==
    CASE target.type = "edge" -> config.weights.edgePriority
      [] target.type = "center" -> config.weights.centerPriority
      [] target.type = "grid" -> config.weights.gridPriority
      [] target.type = "size" -> config.weights.sizePriority

\* Math.max(0, (snapThreshold - distance) / snapThreshold)
DistanceScore(snapThreshold, distance) ==
    IF snapThreshold = 0
    THEN (IF distance = 0 THEN NaN ELSE Num(0))
    ELSE Num(Max2(0, Div(snapThreshold - distance, snapThreshold)))

\* The weighted combination of the six component scores, with its breakdown.
WeightedScore(distanceScore, grabProximityScore, hierarchyScore, directionScore, velocityScore, typePriorityScore, weights, priority) ==
    [score |->
         IF distanceScore.nan THEN NaN
         ELSE Num(Mul(distanceScore.v, weights.distance)
                  + Mul(grabProximityScore, weights.grabProximity)
                  + Mul(hierarchyScore, weights.hierarchy)
                  + Mul(directionScore, weights.direction)
                  + Mul(velocityScore, weights.velocity)
                  + Mul(typePriorityScore, priority)),
     breakdown |->
         [distance |-> distanceScore, grabProximity |-> grabProximityScore,
          hierarchy |-> hierarchyScore, direction |-> directionScore,
          velocity |-> velocityScore, typePriority |-> typePriorityScore]]

computeScore(target, distance, dragSnapEdge, context, config, getParent) ==
    WeightedScore(
        DistanceScore(config.snapThreshold, distance),
        getGrabProximityWeight(context.grabPoint, dragSnapEdge),
        getHierarchyWeight(context.draggedId, target.sourceObjectId, getParent),
        getDirectionWeight(context.movementDirection,
                           IF target.axis = "x"
                           THEN context.draggedBounds.x + context.draggedBounds.width \div 2
                           ELSE context.draggedBounds.y + context.draggedBounds.height \div 2,
                           target.value, target.axis),
        getVelocityWeight(context.velocity),
        getTypePriorityWeight(target, config),
        config.weights, target.priority)

\* sourceBounds is optional: <<>> when absent, <<bounds>> otherwise.
createGuideEndpoints(target, draggedSnapPoints, viewBounds, sourceBounds) ==
    IF target.axis = "x"
    THEN IF sourceBounds # <<>> /\ target.sourceObjectId # NoId
         THEN LET minY == Min2(draggedSnapPoints.top, sourceBounds[1].y)
                  maxY == Max2(draggedSnapPoints.bottom,
                               sourceBounds[1].y + sourceBounds[1].height)
              IN [guideStart |-> Pt(target.value, minY),
                  guideEnd |-> Pt(target.value, maxY)]
         ELSE [guideStart |-> Pt(target.value, viewBounds.y),
               guideEnd |-> Pt(target.value, viewBounds.y + viewBounds.height)]
    ELSE IF sourceBounds # <<>> /\ target.sourceObjectId # NoId
         THEN LET minX == Min2(draggedSnapPoints.left, sourceBounds[1].x)
                  maxX == Max2(draggedSnapPoints.right,
                               sourceBounds[1].x + sourceBounds[1].width)
              IN [guideStart |-> Pt(minX, target.value),
                  guideEnd |-> Pt(maxX, target.value)]
         ELSE [guideStart |-> Pt(viewBounds.x, target.value),
               guideEnd |-> Pt(viewBounds.x + viewBounds.width, target.value)]

DragValue(value, edge) == [value |-> value, edge |-> edge]

getDragSnapValuesForAxis(snapPoints, axis) ==
    IF axis = "x"
    THEN << DragValue(snapPoints.left, "left"), DragValue(snapPoints.right, "right"),
            DragValue(snapPoints.centerX, "centerX") >>
         \o (IF snapPoints.pivotX # snapPoints.centerX
             THEN <<DragValue(snapPoints.pivotX, "pivotX")>> ELSE <<>>)
    ELSE << DragValue(snapPoints.top, "top"), DragValue(snapPoints.bottom, "bottom"),
            DragValue(snapPoints.centerY, "centerY") >>
         \o (IF snapPoints.pivotY # snapPoints.centerY
             THEN <<DragValue(snapPoints.pivotY, "pivotY")>> ELSE <<>>)

\* Array.prototype.sort((a, b) => b.score - a.score): a stable sort; a NaN
\* difference counts as 0 (the elements compare equal).
ScoreCmp(a, b) ==
    IF a.score.nan \/ b.score.nan THEN 0
    ELSE IF b.score.v # a.score.v THEN b.score.v - a.score.v
    ELSE b.score.err - a.score.err

RECURSIVE InsertByScore(_, _)
InsertByScore(sorted, c) ==
    IF sorted = <<>> THEN <<c>>
    ELSE IF ScoreCmp(Head(sorted), c) <= 0
    THEN <<Head(sorted)>> \o InsertByScore(Tail(sorted), c)
    ELSE <<c>> \o sorted

RECURSIVE SortFrom(_, _)
SortFrom(sorted, rest) ==
    IF rest = <<>> THEN sorted
    ELSE SortFrom(InsertByScore(sorted, Head(rest)), Tail(rest))

\* The sort left out: the candidates stay in the order they were pushed.
SortByScoreSkipped(s) == s

SortByScore(s) == SortFrom(<<>>, s)

\* objectBoundsMap.get(id): the AABB of the last object with that id.
ObjectBoundsOf(objects, id) ==
    IF id # NoId /\ \E i \in 1..Len(objects) : objects[i].id = id
    THEN <<getAABB(objects[CHOOSE i \in 1..Len(objects) :
                               objects[i].id = id
                               /\ \A j \in (i + 1)..Len(objects) : objects[j].id # id])>>
    ELSE <<>>

\* The cutoff made strict: distance < config.snapThreshold.
WithinThresholdStrict(distance, config) == distance < config.snapThreshold

\* if (distance <= config.snapThreshold)
WithinThreshold(distance, config) == distance <= config.snapThreshold

\* candidates.push({ target, score, breakdown, distance, guideStart, guideEnd,
\* dragSnapEdge })
Candidate(target, dv, distance, scored, guide) ==
    [target |-> target, score |-> scored.score, breakdown |-> scored.breakdown,
     distance |-> distance, guideStart |-> guide.guideStart,
     guideEnd |-> guide.guideEnd, dragSnapEdge |-> dv.edge]

\* The candidate of one (target, dragged snap value) pair within the threshold.
PairCandidate(target, dv, draggedSnapPoints, context, objects, viewBounds, config, getParent) ==
    Candidate(target, dv, Abs(dv.value - target.value),
              computeScore(target, Abs(dv.value - target.value), dv.edge, context, config,
                           getParent),
              createGuideEndpoints(target, draggedSnapPoints, viewBounds,
                                   ObjectBoundsOf(objects, target.sourceObjectId)))

\* The candidates one target contributes (the inner loop of computeSnap).
TargetCandidates(target, draggedSnapPoints, context, objects, viewBounds, config, getParent) ==
    LET within == SelectSeq(getDragSnapValuesForAxis(draggedSnapPoints, target.axis),
                            LAMBDA dv : WithinThreshold(Abs(dv.value - target.value),
                                                        config))
    IN [i \in DOMAIN within |->
           PairCandidate(target, within[i], draggedSnapPoints, context, objects,
                         viewBounds, config, getParent)]

\* getDragSnapValuesForAxis(...).find(v => v.edge === edge)?.value || fallback
CurrentDragValue(dragSnapPoints, axis, edge, fallback) ==
    LET found == SelectSeq(getDragSnapValuesForAxis(dragSnapPoints, axis),
                           LAMBDA v : v.edge = edge)
    IN IF found # <<>> /\ found[1].value # 0 THEN found[1].value ELSE fallback

ActiveSnapOf(best, objects) ==
    [target |-> best.target, distance |-> best.distance, score |-> best.score,
     guideStart |-> best.guideStart, guideEnd |-> best.guideEnd,
     sourceBounds |-> ObjectBoundsOf(objects, best.target.sourceObjectId)]

\* The targets computeSnap generates: the relevance filter's draggedBounds
\* argument is not passed.
SnapTargetsOf(context, objects, viewBounds, config) ==
    generateAllSnapTargets(objects, {context.draggedId}, viewBounds, config, <<>>)

\* The candidates pushed for all targets, in the order of the targets.
PushedCandidates(targets, draggedSnapPoints, context, objects, viewBounds, config, getParent) ==
    Flatten([i \in DOMAIN targets |->
                TargetCandidates(targets[i], draggedSnapPoints, context, objects,
                                 viewBounds, config, getParent)])

\* The snapped coordinate of one axis: the best candidate's offset applied to
\* the dragged origin, or the origin itself without candidates.
SnappedCoord(candidates, origin, draggedSnapPoints, axis, fallback) ==
    IF candidates # <<>>
    THEN origin + (candidates[1].target.value
                   - CurrentDragValue(draggedSnapPoints, axis,
                                      candidates[1].dragSnapEdge, fallback))
    ELSE origin

\* The result computeSnap builds from the sorted candidates of the two axes.
SnapResultOf(candidatesX, candidatesY, draggedSnapPoints, context, objects) ==
    [snappedPosition |->
         Pt(SnappedCoord(candidatesX, context.draggedBounds.x, draggedSnapPoints, "x",
                         draggedSnapPoints.left),
            SnappedCoord(candidatesY, context.draggedBounds.y, draggedSnapPoints, "y",
                         draggedSnapPoints.top)),
     activeSnaps |->
         (IF candidatesX # <<>> THEN <<ActiveSnapOf(candidatesX[1], objects)>> ELSE <<>>)
         \o (IF candidatesY # <<>> THEN <<ActiveSnapOf(candidatesY[1], objects)>>
             ELSE <<>>),
     candidates |-> SortByScore(candidatesX \o candidatesY)]

\* The candidates split by axis and sorted by score, best first.
SnapOfPushed(pushed, draggedSnapPoints, context, objects) ==
    SnapResultOf(SortByScore(SelectSeq(pushed, LAMBDA c : c.target.axis = "x")),
                 SortByScore(SelectSeq(pushed, LAMBDA c : c.target.axis = "y")),
                 draggedSnapPoints, context, objects)

\* The body of computeSnap for an enabled configuration.
SnapOfTargets(targets, draggedSnapPoints, context, objects, viewBounds, config, getParent) ==
    SnapOfPushed(PushedCandidates(targets, draggedSnapPoints, context, objects,
                                  viewBounds, config, getParent),
                 draggedSnapPoints, context, objects)

computeSnap(context, objects, viewBounds, config, getParent) ==
    IF ~config.enabled
    THEN [snappedPosition |-> Pt(context.draggedBounds.x, context.draggedBounds.y),
          activeSnaps |-> <<>>, candidates |-> <<>>]
    ELSE SnapOfTargets(SnapTargetsOf(context, objects, viewBounds, config),
                       getSnapPoints(context.draggedBounds), context, objects,
                       viewBounds, config, getParent)

(***************************************************************************)
(* State.  call is the pending or last call (the function and its          *)
(* arguments); ret is [done |-> FALSE] before the call has returned and    *)
(* [done |-> TRUE, value |-> result] after.                                *)
(***************************************************************************)
VARIABLES call, ret

vars == <<call, ret>>

Pending == [done |-> FALSE]
Returned(v) == [done |-> TRUE, value |-> v]

(***************************************************************************)
(* Inputs of the drag-snap calls.                                          *)
(***************************************************************************)
\* The most objects on the canvas besides the dragged one.
MaxObjects == 2

Bounds(x, y, w, h) == [x |-> P(x), y |-> P(y), width |-> P(w), height |-> P(h)]

Obj(id, b, rotation, pivotX, pivotY) ==
    [id |-> id, bounds |-> b, rotation |-> rotation, pivotX |-> pivotX, pivotY |-> pivotY]

\* a: near the dragged object; b: aligned with it in x but far away in y;
\* r: rotated by 90 degrees about an off-centre pivot.
ObjA == Obj("a", Bounds(100, 200, 60, 40), 0, Undefined, Undefined)
ObjB == Obj("b", Bounds(100, 2000, 60, 40), 0, Undefined, Undefined)
ObjR == Obj("r", Bounds(0, 40, 40, 100), P(90), Unit \div 5, Half)

ObjectCatalog == <<ObjA, ObjB, ObjR>>

ViewBounds == Bounds(0, 0, 400, 300)

\* Dragged bounds 100 x 80: positions that put the left, right, centre or pivot
\* snap point at a negative, zero or positive coordinate, next to or exactly
\* on a boundary, grid or object target.
DragXs == {-108, -100, -50, 0, 3, 97, 100}
DragXsOffPivot == {-20, 97}
DragYs == {-80, 50, 200}

Dragged(x, y, pivotX) ==
    [x |-> P(x), y |-> P(y), width |-> P(100), height |-> P(80),
     rotation |-> 0, pivotX |-> pivotX, pivotY |-> Undefined]

\* A position whose top edge lies exactly on the boundary and grid line 0
\* while its bottom edge (80) is 2 away from r's top edge (82).
DragAligned == Dragged(-20, 0, Undefined)

DraggedBounds ==
    {Dragged(x, y, Undefined) : x \in DragXs, y \in DragYs}
    \cup {Dragged(x, y, Unit \div 5) : x \in DragXsOffPivot, y \in DragYs}
    \cup {DragAligned}

\* Where the object is held and how it moves: [grabPoint, movementDirection].
DragGestures ==
    {<<Pt(Half, Half), Pt(0, 0)>>, <<Pt(Half, Half), Pt(Unit, 0)>>,
     <<Pt(0, 0), Pt(0, 0)>>, <<Pt(Unit, Unit), Pt(Unit, 0)>>}
Velocities == {P(10)}

\* d and a are siblings in group g1; b is a cousin (group g2); r has no parent.
ParentMap ==
    [id \in {"d", "a", "b", "g1", "g2"} |->
        CASE id \in {"d", "a"} -> "g1"
          [] id = "b" -> "g2"
          [] id \in {"g1", "g2"} -> "top"]

GetParents == {<<>>, <<ParentMap>>}

Thresholds == {P(8), 0}

\* The enabled configurations that snap to objects, the grid or both, with a
\* positive and a zero threshold; a negative threshold; snapping disabled.
\* The grid is 50 wide, so that a call meets object, boundary and grid targets
\* without hundreds of grid lines.
SnapConfigs ==
    {[DEFAULT_SNAP_CONFIG EXCEPT !.snapToObjects = o, !.snapToGrid = g,
                                 !.snapThreshold = t, !.gridSize = P(50)] :
        <<o, g>> \in {<<TRUE, TRUE>>, <<TRUE, FALSE>>, <<FALSE, TRUE>>}, t \in Thresholds}
    \cup {[DEFAULT_SNAP_CONFIG EXCEPT !.snapThreshold = P(-2)],
          [DEFAULT_SNAP_CONFIG EXCEPT !.enabled = FALSE]}

SnapCalls ==
    {[fn |-> "computeSnap",
      context |-> [draggedBounds |-> b, draggedId |-> "d", grabPoint |-> g[1],
                   movementDirection |-> g[2], velocity |-> v],
      objects |-> objs, viewBounds |-> ViewBounds, config |-> cfg, getParent |-> gpar] :
        b \in DraggedBounds, g \in DragGestures, v \in Velocities,
        objs \in SubSeqsUpTo(ObjectCatalog, MaxObjects), cfg \in SnapConfigs,
        gpar \in GetParents}

InitSnap == call \in SnapCalls /\ ret = Pending

ComputeSnapCall ==
    /\ call.fn = "computeSnap"
    /\ ~ret.done
    /\ ret' = Returned(computeSnap(call.context, call.objects, call.viewBounds,
                                   call.config, call.getParent))
    /\ UNCHANGED call

NextSnap == ComputeSnapCall

Spec == InitSnap /\ [][NextSnap]_vars

(***************************************************************************)
(* Properties of computeSnap.                                              *)
(***************************************************************************)
SnapReturned == call.fn = "computeSnap" /\ ret.done

Axes == {"x", "y"}

Coord(p, axis) == IF axis = "x" THEN p.x ELSE p.y

Range(s) == {s[i] : i \in 1..Len(s)}

\* The elements of a sequence of candidates, active snaps or targets that lie
\* on one axis, in order.
OnAxis(s, axis) == SelectSeq(s, LAMBDA c : c.target.axis = axis)

\* The targets of the call and the dragged object's snap points.
CallTargets ==
    IF call.config.enabled
    THEN SnapTargetsOf(call.context, call.objects, call.viewBounds, call.config)
    ELSE <<>>
CallSnapPoints == getSnapPoints(call.context.draggedBounds)

\* Some target of the axis lies within distance t of some dragged snap point.
PairWithin(targets, snapPoints, axis, t) ==
    LET dvs == getDragSnapValuesForAxis(snapPoints, axis)
    IN \E i \in 1..Len(targets) :
          /\ targets[i].axis = axis
          /\ \E k \in 1..Len(dvs) : Abs(dvs[k].value - targets[i].value) <= t

\* a > b on doubles: false when either is NaN.
ScoreGt(a, b) == ~a.nan /\ ~b.nan /\ a.v > b.v

\* C1: with snapping enabled (and a positive threshold), on every axis that
\* has a winning candidate the snapped coordinate is the dragged origin plus
\* (target.value - the current value of the winning dragged snap point),
\* whatever that value is: positive, zero or negative.
C1_ExactOffset ==
    (SnapReturned /\ call.config.enabled /\ call.config.snapThreshold > 0) =>
        LET sp == CallSnapPoints
        IN \A axis \in Axes :
              LET cands == OnAxis(ret.value.candidates, axis)
              IN cands # <<>> =>
                    Coord(ret.value.snappedPosition, axis)
                    = Coord(call.context.draggedBounds, axis)
                      + (cands[1].target.value - sp[cands[1].dragSnapEdge])

\* C2: at most one ActiveSnap per axis; the ActiveSnap of an axis is one of the
\* axis's candidates and no candidate of the axis scores higher; an axis on
\* which no pair lies within the threshold keeps the dragged coordinate and has
\* no ActiveSnap, whatever the other axis does.
C2_OneBestPerAxis ==
    SnapReturned =>
        LET targets == CallTargets
            sp == CallSnapPoints
        IN \A axis \in Axes :
              LET cands == OnAxis(ret.value.candidates, axis)
                  snaps == OnAxis(ret.value.activeSnaps, axis)
                  others == OnAxis(ret.value.activeSnaps, IF axis = "x" THEN "y" ELSE "x")
              IN /\ Len(snaps) <= 1
                 /\ Len(ret.value.activeSnaps) = Len(snaps) + Len(others)
                 /\ IF PairWithin(targets, sp, axis, call.config.snapThreshold)
                    THEN /\ Len(snaps) = 1
                         /\ \E i \in 1..Len(cands) :
                               /\ cands[i].target = snaps[1].target
                               /\ cands[i].distance = snaps[1].distance
                               /\ cands[i].score = snaps[1].score
                         /\ \A i \in 1..Len(cands) :
                               ~ScoreGt(cands[i].score, snaps[1].score)
                    ELSE /\ snaps = <<>>
                         /\ Coord(ret.value.snappedPosition, axis)
                            = Coord(call.context.draggedBounds, axis)

\* C2 witness: the x axis snaps to the best of several differently scored
\* candidates while the y axis has none and keeps its coordinate.
C2_Witness ==
    /\ SnapReturned
    /\ LET cx == OnAxis(ret.value.candidates, "x")
       IN /\ Len(cx) >= 2
          /\ ScoreGt(cx[1].score, cx[Len(cx)].score)
    /\ Len(OnAxis(ret.value.activeSnaps, "x")) = 1
    /\ OnAxis(ret.value.candidates, "y") = <<>>
    /\ ret.value.snappedPosition.x # call.context.draggedBounds.x
    /\ ret.value.snappedPosition.y = call.context.draggedBounds.y

\* C3: whenever some dragged snap point already equals a generated target on
\* an axis (enabled, positive threshold), the axis gets a zero offset and an
\* ActiveSnap with distance 0, whatever else lies within the threshold.
C3_SnapIdempotence ==
    (SnapReturned /\ call.config.enabled /\ call.config.snapThreshold > 0) =>
        LET targets == CallTargets
            sp == CallSnapPoints
        IN \A axis \in Axes :
              LET snaps == OnAxis(ret.value.activeSnaps, axis)
              IN PairWithin(targets, sp, axis, 0) =>
                    /\ Coord(ret.value.snappedPosition, axis)
                       = Coord(call.context.draggedBounds, axis)
                    /\ Len(snaps) = 1
                    /\ snaps[1].distance = 0

\* C4: a (target, dragged snap point) pair is a candidate if and only if its
\* distance is at most snapThreshold; no candidate or ActiveSnap lies farther.
C4_ThresholdBoundary ==
    SnapReturned =>
        LET targets == CallTargets
            sp == CallSnapPoints
            cands == ret.value.candidates
            snaps == ret.value.activeSnaps
            t == call.config.snapThreshold
        IN /\ \A i \in 1..Len(targets) :
                 LET dvs == getDragSnapValuesForAxis(sp, targets[i].axis)
                 IN \A k \in 1..Len(dvs) :
                       (Abs(dvs[k].value - targets[i].value) <= t)
                       <=> \E j \in 1..Len(cands) :
                              /\ cands[j].target = targets[i]
                              /\ cands[j].dragSnapEdge = dvs[k].edge
                              /\ cands[j].distance = Abs(dvs[k].value - targets[i].value)
           /\ \A j \in 1..Len(cands) : cands[j].distance <= t
           /\ \A j \in 1..Len(snaps) : snaps[j].distance <= t

\* C4 witness: a candidate at distance exactly snapThreshold (8 pixels) was
\* admitted while other pairs of the call were left out.
C4_Witness ==
    /\ SnapReturned
    /\ call.config.snapThreshold > 0
    /\ \E j \in 1..Len(ret.value.candidates) :
          ret.value.candidates[j].distance = call.config.snapThreshold
    /\ \E i \in 1..Len(CallTargets) :
          CallTargets[i].axis = "x"
          /\ Abs(CallSnapPoints.left - CallTargets[i].value) > call.config.snapThreshold

\* C5: with snapping disabled or snapThreshold <= 0, computeSnap returns the
\* dragged position, no active snaps and no candidates.
C5_MisconfigurationNoSnap ==
    (SnapReturned /\ (~call.config.enabled \/ call.config.snapThreshold <= 0)) =>
        /\ ret.value.snappedPosition
           = Pt(call.context.draggedBounds.x, call.context.draggedBounds.y)
        /\ ret.value.activeSnaps = <<>>
        /\ ret.value.candidates = <<>>

\* The object of the call with the given id.
CallObject(id) == CHOOSE o \in Range(call.objects) : o.id = id

\* C6: no candidate or ActiveSnap of computeSnap is sourced from an object
\* whose extent on the perpendicular axis neither overlaps the dragged
\* object's nor lies within snapThreshold * 200 of it (positive threshold).
C6_RelevanceFilter ==
    (SnapReturned /\ call.config.snapThreshold > 0) =>
        LET Relevant(target) ==
                target.sourceObjectId # NoId =>
                    isGeometricallyRelevant(
                        getAABB(CallObject(target.sourceObjectId)),
                        call.context.draggedBounds, target.axis,
                        call.config.snapThreshold * DEFAULT_PROXIMITY_MULTIPLIER)
        IN /\ \A j \in 1..Len(ret.value.candidates) :
                 Relevant(ret.value.candidates[j].target)
           /\ \A j \in 1..Len(ret.value.activeSnaps) :
                 Relevant(ret.value.activeSnaps[j].target)

(***************************************************************************)
(* Basic math (geometry/math).                                             *)
(***************************************************************************)
\* The centre not added back: the offset rotated about the origin.
rotatePointAboutOrigin(point, center, angleDegrees) ==
    LET cos == Cos(angleDegrees)
        sin == Sin(angleDegrees)
        dx == point.x - center.x
        dy == point.y - center.y
    IN Pt(Mul(dx, cos) - Mul(dy, sin), Mul(dx, sin) + Mul(dy, cos))

rotatePoint(point, center, angleDegrees) ==
    LET cos == Cos(angleDegrees)
        sin == Sin(angleDegrees)
        dx == point.x - center.x
        dy == point.y - center.y
    IN Pt(center.x + Mul(dx, cos) - Mul(dy, sin),
          center.y + Mul(dx, sin) + Mul(dy, cos))

\* The radians field is not modelled: nothing reads it.
createRotationMatrix(degrees) ==
    [degrees |-> degrees, cos |-> Cos(degrees), sin |-> Sin(degrees)]

unrotateDeltaWithMatrix(dx, dy, matrix) ==
    << Mul(dx, matrix.cos) + Mul(dy, matrix.sin),
       Mul(-dx, matrix.sin) + Mul(dy, matrix.cos) >>

(***************************************************************************)
(* Rotation-aware resize (geometry/resize).                                *)
(***************************************************************************)
Handles == {"nw", "n", "ne", "e", "se", "s", "sw", "w"}

getAnchorForHandle(handle) ==
    CASE handle = "nw" -> Pt(Unit, Unit)
      [] handle = "n" -> Pt(Half, Unit)
      [] handle = "ne" -> Pt(0, Unit)
      [] handle = "e" -> Pt(0, Half)
      [] handle = "se" -> Pt(0, 0)
      [] handle = "s" -> Pt(Half, 0)
      [] handle = "sw" -> Pt(Unit, 0)
      [] handle = "w" -> Pt(Unit, Half)

getRotatedAnchorPosition(bounds, anchor, pivot, rotationMatrix) ==
    LET anchorLocalX == bounds.x + Mul(bounds.width, anchor.x)
        anchorLocalY == bounds.y + Mul(bounds.height, anchor.y)
        pivotAbsX == bounds.x + Mul(bounds.width, pivot.x)
        pivotAbsY == bounds.y + Mul(bounds.height, pivot.y)
    IN Pt(pivotAbsX + Mul(anchorLocalX - pivotAbsX, rotationMatrix.cos)
                    - Mul(anchorLocalY - pivotAbsY, rotationMatrix.sin),
          pivotAbsY + Mul(anchorLocalX - pivotAbsX, rotationMatrix.sin)
                    + Mul(anchorLocalY - pivotAbsY, rotationMatrix.cos))

\* Mutant of getDriverDimension: the width drives under every handle.
getDriverDimensionWidth(handle, localDx, localDy, originalWidth, originalHeight) == "width"

getDriverDimension(handle, localDx, localDy, originalWidth, originalHeight) ==
    IF handle \in {"e", "w"} THEN "width"
    ELSE IF handle \in {"n", "s"} THEN "height"
    ELSE LET propX == Div(Abs(localDx), originalWidth)
             propY == Div(Abs(localDy), originalHeight)
         IN IF propX >= propY THEN "width" ELSE "height"

calculateResizedDimensions(handle, originalWidth, originalHeight, localDx, localDy) ==
    CASE handle = "nw" -> [width |-> originalWidth - localDx,
                           height |-> originalHeight - localDy]
      [] handle = "n" -> [width |-> originalWidth, height |-> originalHeight - localDy]
      [] handle = "ne" -> [width |-> originalWidth + localDx,
                           height |-> originalHeight - localDy]
      [] handle = "e" -> [width |-> originalWidth + localDx, height |-> originalHeight]
      [] handle = "se" -> [width |-> originalWidth + localDx,
                           height |-> originalHeight + localDy]
      [] handle = "s" -> [width |-> originalWidth, height |-> originalHeight + localDy]
      [] handle = "sw" -> [width |-> originalWidth - localDx,
                           height |-> originalHeight + localDy]
      [] handle = "w" -> [width |-> originalWidth - localDx, height |-> originalHeight]

\* The last step left out: the pivot's screen position returned as the origin.
calculateResizedPositionAtPivot(newWidth, newHeight, anchor, pivot, anchorScreenPos, rotationMatrix) ==
    LET newAnchorOffsetX == Mul(newWidth, anchor.x - pivot.x)
        newAnchorOffsetY == Mul(newHeight, anchor.y - pivot.y)
        rotatedOffsetX == Mul(newAnchorOffsetX, rotationMatrix.cos)
                          - Mul(newAnchorOffsetY, rotationMatrix.sin)
        rotatedOffsetY == Mul(newAnchorOffsetX, rotationMatrix.sin)
                          + Mul(newAnchorOffsetY, rotationMatrix.cos)
    IN Pt(anchorScreenPos.x - rotatedOffsetX, anchorScreenPos.y - rotatedOffsetY)

calculateResizedPosition(newWidth, newHeight, anchor, pivot, anchorScreenPos, rotationMatrix) ==
    LET newAnchorOffsetX == Mul(newWidth, anchor.x - pivot.x)
        newAnchorOffsetY == Mul(newHeight, anchor.y - pivot.y)
        rotatedOffsetX == Mul(newAnchorOffsetX, rotationMatrix.cos)
                          - Mul(newAnchorOffsetY, rotationMatrix.sin)
        rotatedOffsetY == Mul(newAnchorOffsetX, rotationMatrix.sin)
                          + Mul(newAnchorOffsetY, rotationMatrix.cos)
        newPivotScreenX == anchorScreenPos.x - rotatedOffsetX
        newPivotScreenY == anchorScreenPos.y - rotatedOffsetY
    IN Pt(newPivotScreenX - Mul(newWidth, pivot.x),
          newPivotScreenY - Mul(newHeight, pivot.y))

initResizeState(startPoint, handle, bounds, pivot, rotation) ==
    LET rotationMatrix == createRotationMatrix(rotation)
        anchor == getAnchorForHandle(handle)
        anchorScreenPos == getRotatedAnchorPosition(bounds, anchor, pivot, rotationMatrix)
    IN [startX |-> startPoint.x, startY |-> startPoint.y, handle |-> handle,
        originalBounds |-> bounds, pivot |-> pivot, anchor |-> anchor,
        anchorScreenPos |-> anchorScreenPos, rotationMatrix |-> rotationMatrix]

\* minWidth, minHeight and aspectRatio are optional arguments: <<>> when
\* absent (minimum 10, no ratio), <<v>> when given.
calculateResizeBounds(state, currentPoint, minWidthArg, minHeightArg, aspectRatio) ==
    LET minWidth == IF minWidthArg = <<>> THEN P(10) ELSE minWidthArg[1]
        minHeight == IF minHeightArg = <<>> THEN P(10) ELSE minHeightArg[1]
        screenDx == currentPoint.x - state.startX
        screenDy == currentPoint.y - state.startY
        local == unrotateDeltaWithMatrix(screenDx, screenDy, state.rotationMatrix)
        localDx == local[1]
        localDy == local[2]
        free == calculateResizedDimensions(state.handle, state.originalBounds.width,
                                           state.originalBounds.height, localDx, localDy)
        ratioed ==
            IF aspectRatio # <<>>
            THEN IF getDriverDimension(state.handle, localDx, localDy,
                                       state.originalBounds.width,
                                       state.originalBounds.height) = "width"
                 THEN [width |-> free.width, height |-> Div(free.width, aspectRatio[1])]
                 ELSE [width |-> Mul(free.height, aspectRatio[1]), height |-> free.height]
            ELSE free
        sized ==
            IF aspectRatio # <<>>
            THEN LET minByWidth == minWidth
                     minByHeight == Mul(minHeight, aspectRatio[1])
                 IN IF ratioed.width < minByWidth \/ ratioed.height < minHeight
                    THEN IF minByWidth >= minByHeight
                         THEN [width |-> minByWidth,
                               height |-> Div(minByWidth, aspectRatio[1])]
                         ELSE [width |-> Mul(minHeight, aspectRatio[1]),
                               height |-> minHeight]
                    ELSE ratioed
            ELSE [width |-> Max2(ratioed.width, minWidth),
                  height |-> Max2(ratioed.height, minHeight)]
        position == calculateResizedPosition(sized.width, sized.height, state.anchor,
                                             state.pivot, state.anchorScreenPos,
                                             state.rotationMatrix)
    IN [x |-> position.x, y |-> position.y, width |-> sized.width,
        height |-> sized.height]

(***************************************************************************)
(* Pivot compensation and rotation about a centre (rotation-utils).        *)
(***************************************************************************)
\* rotation === 0 || Math.abs(rotation) < 0.001, where 0.001 is a thousandth
\* of Unit in fixed point.
calculatePivotCompensation(oldPivot, newPivot, bounds, rotation) ==
    LET dpx == oldPivot.x - newPivot.x
        dpy == oldPivot.y - newPivot.y
    IN IF rotation = 0 \/ Abs(rotation) < Unit \div (10 * 10 * 10)
       THEN Pt(Mul(bounds.width, dpx), Mul(bounds.height, dpy))
       ELSE LET cos == Cos(rotation)
                sin == Sin(rotation)
                objW == bounds.width
                objH == bounds.height
            IN Pt(Mul(Mul(objW, dpx), Unit - cos) + Mul(Mul(objH, dpy), sin),
                  Mul(Mul(objH, dpy), Unit - cos) - Mul(Mul(objW, dpx), sin))

rotatePointAroundCenter(point, center, angleDegrees) ==
    LET cos == Cos(angleDegrees)
        sin == Sin(angleDegrees)
        dx == point.x - center.x
        dy == point.y - center.y
    IN Pt(center.x + Mul(dx, cos) - Mul(dy, sin),
          center.y + Mul(dx, sin) + Mul(dy, cos))

(***************************************************************************)
(* Resize sessions: initResizeState on pointer down, then                  *)
(* calculateResizeBounds for each pointer position.                        *)
(***************************************************************************)
ResizeBounds == {Bounds(100, 50, 200, 100)}

ResizePivots == {Pt(Half, Half), Pt(Unit \div 5, 4 * (Unit \div 5))}

ResizeRotations == {0, P(90), P(180), Atan43, -Atan34}

ResizeStartPoint == Pt(P(300), P(150))

\* Pointer displacements: growing, doubling, shrinking and collapsing the
\* object, along one axis and along both.
PointerDeltas ==
    {Pt(P(200), P(100)), Pt(P(50), 0), Pt(P(-25), P(75)), Pt(P(-150), P(-50)),
     Pt(P(-300), P(-200))}

\* [minWidth, minHeight]: both defaulted, or both given.
MinSizes == {<< <<>>, <<>> >>, << <<P(40)>>, <<P(60)>> >>}

AspectRatios == {<<>>, <<P(2)>>, <<Half>>}

ResizeCalls ==
    {[fn |-> "calculateResizeBounds", startPoint |-> ResizeStartPoint, handle |-> h,
      bounds |-> b, pivot |-> pv, rotation |-> r, minWidth |-> m[1],
      minHeight |-> m[2], aspectRatio |-> ar] :
        h \in Handles, b \in ResizeBounds, pv \in ResizePivots, r \in ResizeRotations,
        m \in MinSizes, ar \in AspectRatios}

InitResize == call \in ResizeCalls /\ ret = Pending

InitResizeStateCall ==
    /\ call.fn = "calculateResizeBounds"
    /\ ret = Pending
    /\ ret' = [done |-> FALSE,
               state |-> initResizeState(call.startPoint, call.handle, call.bounds,
                                         call.pivot, call.rotation)]
    /\ UNCHANGED call

CalculateResizeBoundsCall ==
    /\ call.fn = "calculateResizeBounds"
    /\ ret # Pending
    /\ \E d \in PointerDeltas :
          LET currentPoint == Pt(call.startPoint.x + d.x, call.startPoint.y + d.y)
          IN ret' = [done |-> TRUE, state |-> ret.state, currentPoint |-> currentPoint,
                     value |-> calculateResizeBounds(ret.state, currentPoint,
                                                     call.minWidth, call.minHeight,
                                                     call.aspectRatio)]
    /\ UNCHANGED call

NextResize == InitResizeStateCall \/ CalculateResizeBoundsCall

SpecResize == InitResize /\ [][NextResize]_vars

ResizeReturned == call.fn = "calculateResizeBounds" /\ ret.done

\* The normalized point opposite a handle: the east side for the west
\* handles, the south side for the north handles, the middle otherwise.
OppositeOf(handle) ==
    Pt(IF handle \in {"nw", "w", "sw"} THEN Unit
       ELSE IF handle \in {"ne", "e", "se"} THEN 0 ELSE Half,
       IF handle \in {"nw", "n", "ne"} THEN Unit
       ELSE IF handle \in {"sw", "s", "se"} THEN 0 ELSE Half)

\* A normalized point of the bounds, rotated about the bounds' pivot.
ScreenPosOf(bounds, normalized, pivot, rotation) ==
    rotatePointAround(Pt(bounds.x + Mul(bounds.width, normalized.x),
                         bounds.y + Mul(bounds.height, normalized.y)),
                      Pt(bounds.x + Mul(bounds.width, pivot.x),
                         bounds.y + Mul(bounds.height, pivot.y)),
                      rotation)

PivotCoords == {0, Unit \div 5, Half, Unit}

Pivots == {Pt(px, py) : px \in PivotCoords, py \in PivotCoords}

PivotBounds == {Bounds(100, 50, 100, 50), Bounds(-40, 0, 20, 60)}

PivotRotations == {0, P(90), P(180), P(270), Atan43, -Atan34}

PivotCalls ==
    {[fn |-> "calculatePivotCompensation", oldPivot |-> po, newPivot |-> pn,
      bounds |-> b, rotation |-> r] :
        po \in Pivots, pn \in Pivots, b \in PivotBounds, r \in PivotRotations}

InitPivot == call \in PivotCalls /\ ret = Pending

CalculatePivotCompensationCall ==
    /\ call.fn = "calculatePivotCompensation"
    /\ ~ret.done
    /\ ret' = Returned(calculatePivotCompensation(call.oldPivot, call.newPivot,
                                                  call.bounds, call.rotation))
    /\ UNCHANGED call

NextPivot == CalculatePivotCompensationCall

SpecPivot == InitPivot /\ [][NextPivot]_vars

PivotReturned == call.fn = "calculatePivotCompensation" /\ ret.done

WithPivot(bounds, rotation, pivot) ==
    [x |-> bounds.x, y |-> bounds.y, width |-> bounds.width, height |-> bounds.height,
     rotation |-> rotation, pivotX |-> pivot.x, pivotY |-> pivot.y]

\* C8: the object moved by the compensation and rotated about the new pivot
\* has the same four screen corners as the original rotated about the old
\* pivot, at rotation 0 as at any other rotation.
C8_PivotCompensationInverse ==
    PivotReturned =>
        LET moved == [call.bounds EXCEPT !.x = @ + ret.value.x, !.y = @ + ret.value.y]
        IN getRotatedCorners(WithPivot(moved, call.rotation, call.newPivot))
           = getRotatedCorners(WithPivot(call.bounds, call.rotation, call.oldPivot))

(***************************************************************************)
(* Bounding-box calls: getAABB, getRotatedCorners and getSnapPoints of one *)
(* object, in any order.                                                   *)
(***************************************************************************)
BoxBounds == {Bounds(100, 50, 100, 50), Bounds(-40, 0, 20, 60), Bounds(0, -30, 0, 40)}

BoxPivotCoords == {Undefined, 0, Unit \div 5, Unit}

BoxObjects ==
    {Obj("o", b, r, px, py) :
        b \in BoxBounds, r \in Angles, px \in BoxPivotCoords, py \in BoxPivotCoords}

BoxCalls == {[fn |-> "getAABB", obj |-> o] : o \in BoxObjects}

InitBox ==
    /\ call \in BoxCalls
    /\ ret = [done |-> FALSE, aabb |-> <<>>, corners |-> <<>>, snapPoints |-> <<>>]

BoxDone(r) == r.aabb # <<>> /\ r.corners # <<>> /\ r.snapPoints # <<>>

GetAABBCall ==
    /\ call.fn = "getAABB"
    /\ ret.aabb = <<>>
    /\ LET r == [ret EXCEPT !.aabb = <<getAABB(call.obj)>>]
       IN ret' = [r EXCEPT !.done = BoxDone(r)]
    /\ UNCHANGED call

GetRotatedCornersCall ==
    /\ call.fn = "getAABB"
    /\ ret.corners = <<>>
    /\ LET r == [ret EXCEPT !.corners = <<getRotatedCorners(ObjRotatedBounds(call.obj))>>]
       IN ret' = [r EXCEPT !.done = BoxDone(r)]
    /\ UNCHANGED call

GetSnapPointsCall ==
    /\ call.fn = "getAABB"
    /\ ret.snapPoints = <<>>
    /\ LET r == [ret EXCEPT !.snapPoints = <<getSnapPoints(ObjRotatedBounds(call.obj))>>]
       IN ret' = [r EXCEPT !.done = BoxDone(r)]
    /\ UNCHANGED call

NextBox == GetAABBCall \/ GetRotatedCornersCall \/ GetSnapPointsCall

SpecBox == InitBox /\ [][NextBox]_vars

BoxReturned == call.fn = "getAABB" /\ ret.done

\* C9: the four rotated corners lie inside the rectangle getAABB returns, whose
\* sides are the left, right, top and bottom of getSnapPoints, and each of the
\* four sides passes through at least one rotated corner.
C9_AABBContainsAndTouches ==
    BoxReturned =>
        LET box == ret.aabb[1]
            corners == ret.corners[1]
            sp == ret.snapPoints[1]
            left == box.x
            right == box.x + box.width
            top == box.y
            bottom == box.y + box.height
        IN /\ Len(corners) = 4
           /\ \A i \in 1..4 : /\ left <= corners[i].x /\ corners[i].x <= right
                              /\ top <= corners[i].y /\ corners[i].y <= bottom
           /\ sp.left = left /\ sp.right = right /\ sp.top = top /\ sp.bottom = bottom
           /\ \E i \in 1..4 : corners[i].x = left
           /\ \E i \in 1..4 : corners[i].x = right
           /\ \E i \in 1..4 : corners[i].y = top
           /\ \E i \in 1..4 : corners[i].y = bottom

\* C9 witness: an object rotated by a skew angle about an off-centre pivot,
\* whose box differs from its bounds in origin and size and whose four sides
\* pass through four different corners.
C9_Witness ==
    /\ BoxReturned
    /\ call.obj.rotation \in SkewAngles
    /\ call.obj.pivotX = Unit \div 5
    /\ call.obj.bounds.width > 0
    /\ ret.aabb[1].x # call.obj.bounds.x
    /\ ret.aabb[1].width > call.obj.bounds.width
    /\ ret.aabb[1].height > call.obj.bounds.height
    /\ Cardinality({ret.corners[1][i].x : i \in 1..4}) = 4

(***************************************************************************)
(* Rotation round trips: a point rotated by an angle about a centre and    *)
(* then by the opposite angle about the same centre, with                  *)
(* rotatePointAroundCenter or with rotatePoint.                            *)
(***************************************************************************)
RoundTripPoints == {Pt(P(x), P(y)) : x \in {-30, 0, 45}, y \in {0, 20}}

RoundTripCenters == {Pt(0, 0), Pt(P(10), P(-5)), Pt(P(45), P(20))}

RoundTripCalls ==
    {[fn |-> f, point |-> pt, center |-> c, angle |-> a] :
        f \in {"rotatePointAroundCenter", "rotatePoint"}, pt \in RoundTripPoints,
        c \in RoundTripCenters, a \in Angles}

InitRoundTrip ==
    /\ call \in RoundTripCalls
    /\ ret = [done |-> FALSE, there |-> <<>>, back |-> <<>>]

\* The angle of the next rotation: the call's angle, then its opposite.
NextAngle == IF ret.there = <<>> THEN call.angle ELSE -call.angle
NextPoint == IF ret.there = <<>> THEN call.point ELSE ret.there[1]

Rotated(p) ==
    IF ret.there = <<>>
    THEN [ret EXCEPT !.there = <<p>>]
    ELSE [ret EXCEPT !.back = <<p>>, !.done = TRUE]

RotatePointAroundCenterCall ==
    /\ call.fn = "rotatePointAroundCenter"
    /\ ~ret.done
    /\ ret' = Rotated(rotatePointAroundCenter(NextPoint, call.center, NextAngle))
    /\ UNCHANGED call

RotatePointCall ==
    /\ call.fn = "rotatePoint"
    /\ ~ret.done
    /\ ret' = Rotated(rotatePoint(NextPoint, call.center, NextAngle))
    /\ UNCHANGED call

NextRoundTrip == RotatePointAroundCenterCall \/ RotatePointCall

SpecRoundTrip == InitRoundTrip /\ [][NextRoundTrip]_vars

RoundTripReturned == call.fn \in {"rotatePointAroundCenter", "rotatePoint"} /\ ret.done

BoxObject(id, box, left, right, top, bottom, centerX, centerY) ==
    [id |-> id, bounds |-> box, centerX |-> centerX, centerY |-> centerY,
     left |-> left, right |-> right, top |-> top, bottom |-> bottom]

AABBObject(id, aabb) ==
    BoxObject(id, aabb, aabb.x, aabb.x + aabb.width, aabb.y, aabb.y + aabb.height,
              aabb.x + aabb.width \div 2, aabb.y + aabb.height \div 2)

toObjectWithBounds(obj) == AABBObject(obj.id, getAABB(obj))

SnapPointsObject(id, sp) ==
    BoxObject(id, BoxOf(sp.left, sp.right, sp.top, sp.bottom),
              sp.left, sp.right, sp.top, sp.bottom, sp.centerX, sp.centerY)

draggedToBounds(bounds, id) == SnapPointsObject(id, getSnapPoints(bounds))

rangesOverlap(a1, a2, b1, b2, tolerance) ==
    ~(a2 + tolerance < b1 \/ b2 + tolerance < a1)

gapX(left, right) == right.left - left.right
gapY(top, bottom) == bottom.top - top.bottom

RECURSIVE Sum(_)
Sum(values) == IF values = <<>> THEN 0 ELSE Head(values) + Sum(Tail(values))

average(values) == IF values = <<>> THEN 0 ELSE Sum(values) \div Len(values)

\* values.every(v => Math.abs(v - avg) <= tolerance), true below two values.
areValuesEqual(values, tolerance) ==
    \/ Len(values) < 2
    \/ \A i \in 1..Len(values) : Abs(values[i] - Sum(values) \div Len(values)) <= tolerance

GAP_TOLERANCE == P(1)

\* The fields a detector reads along its axis: the row detector works on
\* left/right/centerX, the column detector on top/bottom/centerY.
RowFields ==
    [pattern |-> "row", axis |-> "x", lo |-> "left", hi |-> "right",
     center |-> "centerX", cross |-> "centerY"]

ColumnFields ==
    [pattern |-> "column", axis |-> "y", lo |-> "top", hi |-> "bottom",
     center |-> "centerY", cross |-> "centerX"]

\* gapX / gapY by the detector's fields.
GapAlong(f, a, b) == b[f.lo] - a[f.hi]

\* The extent of an object along the detector's axis (draggedWidth, draggedHeight).
SizeAlong(f, o) == o[f.hi] - o[f.lo]

\* A point at `along` on the detector's axis and `across` on the other one.
PointAlong(f, along, across) ==
    IF f.axis = "x" THEN Pt(along, across) ELSE Pt(across, along)

\* One gap indicator between two neighbours, drawn at the middle of their
\* centres on the other axis.
GapSegment(f, a, b, distance) ==
    [start |-> PointAlong(f, a[f.hi], (a[f.cross] + b[f.cross]) \div 2),
     end |-> PointAlong(f, b[f.lo], (a[f.cross] + b[f.cross]) \div 2),
     distance |-> distance, axis |-> f.axis]

\* createRowGaps / createColumnGaps from pair i on: only the pairs whose
\* actual gap is within GAP_TOLERANCE of the target spacing.
RECURSIVE AxisGapsFrom(_, _, _, _)
AxisGapsFrom(f, sortedObjects, targetSpacing, i) ==
    IF i > Len(sortedObjects) - 1 THEN <<>>
    ELSE (IF Abs(GapAlong(f, sortedObjects[i], sortedObjects[i + 1]) - targetSpacing) > GAP_TOLERANCE
          THEN <<>>
          ELSE <<GapSegment(f, sortedObjects[i], sortedObjects[i + 1],
                            GapAlong(f, sortedObjects[i], sortedObjects[i + 1]))>>)
         \o AxisGapsFrom(f, sortedObjects, targetSpacing, i + 1)

createRowGaps(sortedObjects, targetSpacing) ==
    AxisGapsFrom(RowFields, sortedObjects, targetSpacing, 1)

createColumnGaps(sortedObjects, targetSpacing) ==
    AxisGapsFrom(ColumnFields, sortedObjects, targetSpacing, 1)

\* The gap indicators of the detector's own axis.
createAxisGaps(f, sortedObjects, targetSpacing) ==
    IF f.axis = "x" THEN createRowGaps(sortedObjects, targetSpacing)
    ELSE createColumnGaps(sortedObjects, targetSpacing)

\* Array.prototype.sort((a, b) => a[field] - b[field]): stable, ascending.
RECURSIVE InsertByField(_, _, _)
InsertByField(sorted, o, field) ==
    IF sorted = <<>> THEN <<o>>
    ELSE IF o[field] < Head(sorted)[field] THEN <<o>> \o sorted
    ELSE <<Head(sorted)>> \o InsertByField(Tail(sorted), o, field)

RECURSIVE SortByFieldFrom(_, _, _)
SortByFieldFrom(sorted, rest, field) ==
    IF rest = <<>> THEN sorted
    ELSE SortByFieldFrom(InsertByField(sorted, Head(rest), field), Tail(rest), field)

SortByField(s, field) == SortByFieldFrom(<<>>, s, field)

\* distanceScore * (1 + countBonus * 0.5)
calculateDistributionScore(objectCount, distance, threshold) ==
    Mul(Max2(0, Div(threshold - distance, threshold)),
        Unit + Mul(Min2(Div(P(objectCount), P(5)), Unit), Half))

\* Mutant of MovedAlong: the dragged object left where it is.
NotMovedAlong(f, dragged, pos) == dragged

\* { ...dragged, left: pos, right: pos + size, centerX: pos + size / 2 }
MovedAlong(f, dragged, pos) ==
    [dragged EXCEPT ![f.lo] = pos, ![f.hi] = pos + SizeAlong(f, dragged),
                    ![f.center] = pos + SizeAlong(f, dragged) \div 2]

\* { x: newX, y: dragged.bounds.y } for a row, { x: dragged.bounds.x, y: newY }
\* for a column.
PositionAlong(f, dragged, pos) ==
    IF f.axis = "x" THEN Pt(pos, dragged.bounds.y) ELSE Pt(dragged.bounds.x, pos)

Ids(objs) == [i \in 1..Len(objs) |-> objs[i].id]

DistributionCandidate(position, pattern, objectIds, spacing, gaps, distance, score) ==
    [position |-> position,
     info |-> [pattern |-> pattern, objectIds |-> objectIds, spacing |-> spacing, gaps |-> gaps],
     distance |-> distance, score |-> score]

\* (currentGap - draggedWidth) / 2
InsertionGap(currentGap, draggedSize) == (currentGap - draggedSize) \div 2

\* The ideal position of the dragged object between two neighbours.
InsertionPos(f, dragged, left, right) ==
    left[f.hi] + InsertionGap(GapAlong(f, left, right), SizeAlong(f, dragged))

\* The slot between two neighbours takes the dragged object and the object
\* is within threshold of the slot's ideal position.
InsertionQualifies(f, dragged, left, right, threshold) ==
    /\ GapAlong(f, left, right) >= SizeAlong(f, dragged)
    /\ InsertionGap(GapAlong(f, left, right), SizeAlong(f, dragged)) >= 0
    /\ Abs(dragged[f.lo] - InsertionPos(f, dragged, left, right)) <= threshold

\* The candidate of inserting between left and right at newPos, built from
\* the three objects involved.
InsertionOfThree(f, dragged, threeObjects, newPos, insertionGap, threshold) ==
    DistributionCandidate(
        PositionAlong(f, dragged, newPos), f.pattern, Ids(threeObjects), insertionGap,
        createAxisGaps(f, threeObjects, insertionGap),
        Abs(dragged[f.lo] - newPos),
        calculateDistributionScore(Len(threeObjects), Abs(dragged[f.lo] - newPos), threshold))

InsertionCandidate(f, dragged, left, right, threshold) ==
    InsertionOfThree(f, dragged,
        <<left, MovedAlong(f, dragged, InsertionPos(f, dragged, left, right)), right>>,
        InsertionPos(f, dragged, left, right),
        InsertionGap(GapAlong(f, left, right), SizeAlong(f, dragged)), threshold)

\* The loop over adjacent pairs from pair i on: the first slot that qualifies
\* is returned.
RECURSIVE InsertionFrom(_, _, _, _, _)
InsertionFrom(f, dragged, sorted, threshold, i) ==
    IF i > Len(sorted) - 1 THEN <<>>
    ELSE IF InsertionQualifies(f, dragged, sorted[i], sorted[i + 1], threshold)
    THEN <<InsertionCandidate(f, dragged, sorted[i], sorted[i + 1], threshold)>>
    ELSE InsertionFrom(f, dragged, sorted, threshold, i + 1)

\* findIndex(o => o.id === id): the first position holding the id, 0 if none.
IndexOfId(objs, id) ==
    IF \E i \in 1..Len(objs) : objs[i].id = id
    THEN CHOOSE i \in 1..Len(objs) : objs[i].id = id /\ \A j \in 1..(i - 1) : objs[j].id # id
    ELSE 0

LeftNeighborOf(withDragged, draggedIndex) ==
    IF draggedIndex > 1 THEN <<withDragged[draggedIndex - 1]>> ELSE <<>>

RightNeighborOf(withDragged, draggedIndex) ==
    IF draggedIndex < Len(withDragged) THEN <<withDragged[draggedIndex + 1]>> ELSE <<>>

\* gapDiff <= threshold && gapDiff > 0
GapNearlyMatches(currentGap, existingGap, threshold) ==
    /\ Abs(currentGap - existingGap) <= threshold
    /\ Abs(currentGap - existingGap) > 0

\* The new gap between the neighbour and the snapped object, then the
\* existing gap it matches unless that is the same pair of objects.
MatchedGaps(f, a, b, samePair, gapLeftObj, gapRightObj, existingGap) ==
    <<GapSegment(f, a, b, existingGap)>>
    \o (IF samePair THEN <<>> ELSE <<GapSegment(f, gapLeftObj, gapRightObj, existingGap)>>)

\* The dragged object snapped to existingGap after its left (top) neighbour.
LeftGapMatch(f, dragged, leftNeighbor, gapLeftObj, gapRightObj, existingGap, threshold) ==
    DistributionCandidate(
        PositionAlong(f, dragged, leftNeighbor[f.hi] + existingGap), f.pattern,
        <<leftNeighbor.id, dragged.id, gapLeftObj.id, gapRightObj.id>>, existingGap,
        MatchedGaps(f, leftNeighbor, MovedAlong(f, dragged, leftNeighbor[f.hi] + existingGap),
                    gapLeftObj.id = leftNeighbor.id /\ gapRightObj.id = dragged.id,
                    gapLeftObj, gapRightObj, existingGap),
        Abs(dragged[f.lo] - (leftNeighbor[f.hi] + existingGap)),
        calculateDistributionScore(2, Abs(dragged[f.lo] - (leftNeighbor[f.hi] + existingGap)), threshold))

\* The dragged object snapped to existingGap before its right (bottom) neighbour.
RightGapMatchAt(f, dragged, rightNeighbor, gapLeftObj, gapRightObj, existingGap, threshold, ideal) ==
    DistributionCandidate(
        PositionAlong(f, dragged, ideal), f.pattern,
        <<dragged.id, rightNeighbor.id, gapLeftObj.id, gapRightObj.id>>, existingGap,
        MatchedGaps(f, MovedAlong(f, dragged, ideal), rightNeighbor,
                    gapLeftObj.id = dragged.id /\ gapRightObj.id = rightNeighbor.id,
                    gapLeftObj, gapRightObj, existingGap),
        Abs(dragged[f.lo] - ideal),
        calculateDistributionScore(2, Abs(dragged[f.lo] - ideal), threshold))

RightGapMatch(f, dragged, rightNeighbor, gapLeftObj, gapRightObj, existingGap, threshold) ==
    RightGapMatchAt(f, dragged, rightNeighbor, gapLeftObj, gapRightObj, existingGap, threshold,
                    rightNeighbor[f.lo] - existingGap - SizeAlong(f, dragged))

\* The loop over the existing gaps from gap i on: the first gap that the
\* dragged object's left gap, else its right gap, nearly matches is returned.
RECURSIVE GapMatchFrom(_, _, _, _, _, _, _)
GapMatchFrom(f, dragged, sorted, leftNeighbor, rightNeighbor, threshold, i) ==
    IF i > Len(sorted) - 1 THEN <<>>
    ELSE IF GapAlong(f, sorted[i], sorted[i + 1]) < 0
    THEN GapMatchFrom(f, dragged, sorted, leftNeighbor, rightNeighbor, threshold, i + 1)
    ELSE IF leftNeighbor # <<>> /\ GapNearlyMatches(GapAlong(f, leftNeighbor[1], dragged), GapAlong(f, sorted[i], sorted[i + 1]), threshold)
    THEN <<LeftGapMatch(f, dragged, leftNeighbor[1], sorted[i], sorted[i + 1], GapAlong(f, sorted[i], sorted[i + 1]), threshold)>>
    ELSE IF rightNeighbor # <<>> /\ GapNearlyMatches(GapAlong(f, dragged, rightNeighbor[1]), GapAlong(f, sorted[i], sorted[i + 1]), threshold)
    THEN <<RightGapMatch(f, dragged, rightNeighbor[1], sorted[i], sorted[i + 1], GapAlong(f, sorted[i], sorted[i + 1]), threshold)>>
    ELSE GapMatchFrom(f, dragged, sorted, leftNeighbor, rightNeighbor, threshold, i + 1)

\* The gap matching with the dragged object placed among the sorted ones.
GapMatchAmong(f, dragged, sorted, withDragged, threshold) ==
    GapMatchFrom(f, dragged, sorted,
                 LeftNeighborOf(withDragged, IndexOfId(withDragged, dragged.id)),
                 RightNeighborOf(withDragged, IndexOfId(withDragged, dragged.id)),
                 threshold, 1)

\* Insertion between neighbours first, then gap matching.
DetectAmong(f, dragged, sorted, threshold) ==
    IF InsertionFrom(f, dragged, sorted, threshold, 1) # <<>>
    THEN InsertionFrom(f, dragged, sorted, threshold, 1)
    ELSE GapMatchAmong(f, dragged, sorted, SortByField(sorted \o <<dragged>>, f.center), threshold)

\* The objects whose range across the axis overlaps the dragged object's
\* within twice the threshold.
RowCandidates(dragged, objects, threshold) ==
    SelectSeq(objects, LAMBDA obj : rangesOverlap(dragged.top, dragged.bottom, obj.top, obj.bottom, threshold * 2))

ColumnCandidates(dragged, objects, threshold) ==
    SelectSeq(objects, LAMBDA obj : rangesOverlap(dragged.left, dragged.right, obj.left, obj.right, threshold * 2))

DetectAxis(f, dragged, candidates, threshold, minObjects) ==
    IF Len(candidates) < minObjects THEN <<>>
    ELSE DetectAmong(f, dragged, SortByField(candidates, f.center), threshold)

detectRowDistribution(dragged, objects, threshold, minObjects) ==
    DetectAxis(RowFields, dragged, RowCandidates(dragged, objects, threshold), threshold, minObjects)

detectColumnDistribution(dragged, objects, threshold, minObjects) ==
    DetectAxis(ColumnFields, dragged, ColumnCandidates(dragged, objects, threshold), threshold, minObjects)

\* The largest r in lo..hi with r * r <= n.
RECURSIVE ISqrtIn(_, _, _)
ISqrtIn(n, lo, hi) ==
    IF lo >= hi THEN lo
    ELSE IF ((lo + hi + 1) \div 2) * ((lo + hi + 1) \div 2) <= n
    THEN ISqrtIn(n, (lo + hi + 1) \div 2, hi)
    ELSE ISqrtIn(n, lo, (lo + hi + 1) \div 2 - 1)

\* The precision of the square root: a tenth of a pixel keeps the squares
\* of canvas distances within the integers.
SqrtStep == Unit \div 10

\* Math.sqrt(a * a + b * b), to a tenth of a pixel.
Hypot(a, b) ==
    SqrtStep * ISqrtIn((a \div SqrtStep) * (a \div SqrtStep) + (b \div SqrtStep) * (b \div SqrtStep),
                       0, Abs(a \div SqrtStep) + Abs(b \div SqrtStep))

\* The x gap and the y gap between two neighbours of a staircase.
StaircasePairGaps(current, next, deltaX, deltaY) ==
    (IF Abs(deltaX) > P(1)
     THEN <<[start |-> Pt(current.right, (current.centerY + next.centerY) \div 2),
             end |-> Pt(next.left, (current.centerY + next.centerY) \div 2),
             distance |-> Abs(next.left - current.right), axis |-> "x"]>>
     ELSE <<>>)
    \o (IF Abs(deltaY) > P(1)
        THEN <<[start |-> Pt((current.centerX + next.centerX) \div 2, current.bottom),
                end |-> Pt((current.centerX + next.centerX) \div 2, next.top),
                distance |-> Abs(next.top - current.bottom), axis |-> "y"]>>
        ELSE <<>>)

createStaircaseGaps(sortedObjects, deltaX, deltaY) ==
    Flatten([i \in 1..(Len(sortedObjects) - 1) |->
                StaircasePairGaps(sortedObjects[i], sortedObjects[i + 1], deltaX, deltaY)])

\* sorted[i + 1][field] - sorted[i][field] for the consecutive objects.
Deltas(sorted, field) ==
    [i \in 1..(Len(sorted) - 1) |-> sorted[i + 1][field] - sorted[i][field]]

\* The dragged object with its centre at (centerX, centerY).
CenteredAt(dragged, centerX, centerY) ==
    [dragged EXCEPT !.left = centerX - dragged.bounds.width \div 2,
                    !.right = centerX - dragged.bounds.width \div 2 + dragged.bounds.width,
                    !.top = centerY - dragged.bounds.height \div 2,
                    !.bottom = centerY - dragged.bounds.height \div 2 + dragged.bounds.height,
                    !.centerX = centerX, !.centerY = centerY]

StaircaseCandidate(dragged, allObjects, centerX, centerY, avgDeltaX, avgDeltaY, dist, threshold) ==
    DistributionCandidate(
        Pt(centerX - dragged.bounds.width \div 2, centerY - dragged.bounds.height \div 2),
        "staircase", Ids(allObjects), Hypot(avgDeltaX, avgDeltaY),
        createStaircaseGaps(allObjects, avgDeltaX, avgDeltaY), dist,
        calculateDistributionScore(Len(allObjects), dist, threshold))

\* The step before the first object, else the step after the last one,
\* within one and a half thresholds of the dragged object's centre.
StaircaseEnds(dragged, sorted, avgDeltaX, avgDeltaY, threshold, before, after) ==
    IF Hypot(dragged.centerX - before.x, dragged.centerY - before.y) <= (threshold * 3) \div 2
    THEN <<StaircaseCandidate(dragged, <<CenteredAt(dragged, before.x, before.y)>> \o sorted,
                              before.x, before.y, avgDeltaX, avgDeltaY,
                              Hypot(dragged.centerX - before.x, dragged.centerY - before.y), threshold)>>
    ELSE IF Hypot(dragged.centerX - after.x, dragged.centerY - after.y) <= (threshold * 3) \div 2
    THEN <<StaircaseCandidate(dragged, sorted \o <<CenteredAt(dragged, after.x, after.y)>>,
                              after.x, after.y, avgDeltaX, avgDeltaY,
                              Hypot(dragged.centerX - after.x, dragged.centerY - after.y), threshold)>>
    ELSE <<>>

StaircaseOf(dragged, sorted, deltaXs, deltaYs, threshold) ==
    IF deltaXs = <<>> THEN <<>>
    ELSE IF Abs(average(deltaXs)) < threshold \/ Abs(average(deltaYs)) < threshold THEN <<>>
    ELSE IF ~(areValuesEqual(deltaXs, threshold) /\ areValuesEqual(deltaYs, threshold)) THEN <<>>
    ELSE StaircaseEnds(dragged, sorted, average(deltaXs), average(deltaYs), threshold,
                       Pt(sorted[1].centerX - average(deltaXs), sorted[1].centerY - average(deltaYs)),
                       Pt(sorted[Len(sorted)].centerX + average(deltaXs),
                          sorted[Len(sorted)].centerY + average(deltaYs)))

StaircaseSorted(dragged, sorted, threshold) ==
    StaircaseOf(dragged, sorted, Deltas(sorted, "centerX"), Deltas(sorted, "centerY"), threshold)

detectStaircaseDistribution(dragged, objects, threshold, minObjects) ==
    IF Len(objects) < minObjects THEN <<>>
    ELSE StaircaseSorted(dragged, SortByField(objects, "centerX"), threshold)

\* candidates.sort((a, b) => b.score - a.score): stable, descending.
RECURSIVE InsertCandidate(_, _)
InsertCandidate(sorted, c) ==
    IF sorted = <<>> THEN <<c>>
    ELSE IF c.score > Head(sorted).score THEN <<c>> \o sorted
    ELSE <<Head(sorted)>> \o InsertCandidate(Tail(sorted), c)

RECURSIVE SortCandidatesFrom(_, _)
SortCandidatesFrom(sorted, rest) ==
    IF rest = <<>> THEN sorted
    ELSE SortCandidatesFrom(InsertCandidate(sorted, Head(rest)), Tail(rest))

\* The row, column and staircase candidates in this order, sorted by score.
DetectedAmong(dragged, otherObjects, threshold) ==
    SortCandidatesFrom(<<>>,
        detectRowDistribution(dragged, otherObjects, threshold, 2)
        \o detectColumnDistribution(dragged, otherObjects, threshold, 2)
        \o detectStaircaseDistribution(dragged, otherObjects, threshold, 2))

\* objects.filter(obj => !excludeIds.has(obj.id)).map(toObjectWithBounds)
OtherObjects(objects, excludeIds) ==
    [i \in 1..Len(SelectSeq(objects, LAMBDA obj : obj.id \notin excludeIds)) |->
        toObjectWithBounds(SelectSeq(objects, LAMBDA obj : obj.id \notin excludeIds)[i])]

DetectedOthers(dragged, otherObjects, threshold) ==
    IF Len(otherObjects) < 2 THEN <<>> ELSE DetectedAmong(dragged, otherObjects, threshold)

detectDistribution(draggedBounds, draggedId, objects, excludeIds, config) ==
    IF ~config.snapToDistribution THEN <<>>
    ELSE DetectedOthers(draggedToBounds(draggedBounds, draggedId),
                        OtherObjects(objects, excludeIds), config.snapThreshold)

(***************************************************************************)
(* Distribution detection: detectDistribution and the detectors it calls   *)
(* on rows, columns and staircases of objects, with the dragged object     *)
(* before, after and between them.                                         *)
(***************************************************************************)
Square(id, x, y, size) == Obj(id, Bounds(x, y, size, size), 0, Undefined, Undefined)

\* The object as laid out along the other axis.
Transposed(obj) ==
    [obj EXCEPT !.bounds = [x |-> obj.bounds.y, y |-> obj.bounds.x,
                            width |-> obj.bounds.height, height |-> obj.bounds.width]]

TransposedAll(objs) == [i \in 1..Len(objs) |-> Transposed(objs[i])]

\* The dragged object where its drag started, part of the canvas objects.
DragStart == Square("d", 600, 400, 50)

\* Three 50-wide objects with gaps of 100.
RowOfThree == <<Square("o1", 0, 0, 50), Square("o2", 150, 0, 50), Square("o3", 300, 0, 50), DragStart>>

\* Gaps of 100 and 104.
RowUneven == <<Square("o1", 0, 0, 50), Square("o2", 150, 0, 50), Square("o3", 304, 0, 50), DragStart>>

\* Small objects with gaps of 6.
RowTight ==
    <<Obj("o1", Bounds(0, 0, 10, 10), 0, Undefined, Undefined),
      Obj("o2", Bounds(16, 0, 6, 10), 0, Undefined, Undefined),
      Obj("o3", Bounds(28, 0, 10, 10), 0, Undefined, Undefined), DragStart>>

\* Steps of (150, 80).
Staircase == <<Square("o1", 0, 0, 50), Square("o2", 150, 80, 50), Square("o3", 300, 160, 50), DragStart>>

\* A row of two ending, and a column of two starting, one gap of 100 away
\* from the free corner at (450, 0).
Corner ==
    <<Square("o1", 150, 0, 50), Square("o2", 300, 0, 50),
      Square("o3", 450, 150, 50), Square("o4", 450, 300, 50), DragStart>>

DraggedAt(x, y, size) ==
    [x |-> P(x), y |-> P(y), width |-> P(size), height |-> P(size),
     rotation |-> 0, pivotX |-> Undefined, pivotY |-> Undefined]

RowXs == {-153, -150, 71, 75, 77, 223, 227, 442, 450, 453, 457, 460}
RowYs == {0, 10, 70}
TightXs == {14, 16, 18}
\* Offsets from a staircase step in tenths of a pixel, at distances 0, 4, 10 and 15.
StairOffsets == {<<0, 0>>, <<24, 32>>, <<60, 80>>, <<90, 120>>}

RowDrags == {DraggedAt(x, y, 50) : x \in RowXs, y \in RowYs}
TightDrags == {DraggedAt(x, 0, 6) : x \in TightXs}
OffsetBy(b, o) == [b EXCEPT !.x = @ + o[1] * (Unit \div 10), !.y = @ + o[2] * (Unit \div 10)]

StairDrags ==
    {OffsetBy(DraggedAt(450, 240, 50), o) : o \in StairOffsets}
    \cup {OffsetBy(DraggedAt(-150, -80, 50), o) : o \in StairOffsets}

CornerDrags == {DraggedAt(453, 2, 50), DraggedAt(452, 3, 50), DraggedAt(453, 3, 50)}

TransposedDrag(b) == [b EXCEPT !.x = b.y, !.y = b.x, !.width = b.height, !.height = b.width]

\* <<objects, draggedBounds>>: a layout of objects and a position of the
\* dragged object near it.
RowScenes ==
    ({RowOfThree, RowUneven} \X RowDrags) \cup ({RowTight} \X TightDrags)

ColumnScenes == {<<TransposedAll(s[1]), TransposedDrag(s[2])>> : s \in RowScenes}

DistributionScenes ==
    RowScenes \cup ColumnScenes \cup ({Staircase} \X StairDrags) \cup ({Corner} \X CornerDrags)

ExcludedIds == {{"d"}, {"d", "o3"}}

DistributionConfigs ==
    {[snapToDistribution |-> b, snapThreshold |-> DEFAULT_SNAP_CONFIG.snapThreshold] : b \in BOOLEAN}

\* A detector called on its own takes the objects detectDistribution would
\* hand it; minObjects is left out or given.
DetectorCall(fn, s, excludeIds, minObjects) ==
    [fn |-> fn, dragged |-> draggedToBounds(s[2], "d"),
     objects |-> OtherObjects(s[1], excludeIds),
     threshold |-> DEFAULT_SNAP_CONFIG.snapThreshold, minObjects |-> minObjects]

DistributionCalls ==
    {[fn |-> "detectDistribution", draggedBounds |-> s[2], draggedId |-> "d",
      objects |-> s[1], excludeIds |-> e, config |-> c] :
        s \in DistributionScenes, e \in ExcludedIds, c \in DistributionConfigs}
    \cup {DetectorCall(fn, s, e, m) :
            fn \in {"detectRowDistribution", "detectColumnDistribution", "detectStaircaseDistribution"},
            s \in DistributionScenes, e \in ExcludedIds, m \in {<<>>, <<3>>}}

InitDistribution ==
    /\ call \in DistributionCalls
    /\ ret = Pending

\* minObjects: number = 2
MinObjectsOf(c) == IF c.minObjects = <<>> THEN 2 ELSE c.minObjects[1]

DetectDistributionCall ==
    /\ call.fn = "detectDistribution"
    /\ ~ret.done
    /\ ret' = Returned(detectDistribution(call.draggedBounds, call.draggedId, call.objects,
                                          call.excludeIds, call.config))
    /\ UNCHANGED call

DetectRowDistributionCall ==
    /\ call.fn = "detectRowDistribution"
    /\ ~ret.done
    /\ ret' = Returned(detectRowDistribution(call.dragged, call.objects, call.threshold, MinObjectsOf(call)))
    /\ UNCHANGED call

DetectColumnDistributionCall ==
    /\ call.fn = "detectColumnDistribution"
    /\ ~ret.done
    /\ ret' = Returned(detectColumnDistribution(call.dragged, call.objects, call.threshold, MinObjectsOf(call)))
    /\ UNCHANGED call

DetectStaircaseDistributionCall ==
    /\ call.fn = "detectStaircaseDistribution"
    /\ ~ret.done
    /\ ret' = Returned(detectStaircaseDistribution(call.dragged, call.objects, call.threshold, MinObjectsOf(call)))
    /\ UNCHANGED call

NextDistribution ==
    \/ DetectDistributionCall
    \/ DetectRowDistributionCall
    \/ DetectColumnDistributionCall
    \/ DetectStaircaseDistributionCall

SpecDistribution == InitDistribution /\ [][NextDistribution]_vars

DistributionReturned == call.fn = "detectDistribution" /\ ret.done

\* The objects a detectDistribution call hands to its detectors, sorted along x.
CallRow == SortByField(OtherObjects(call.objects, call.excludeIds), "centerX")

\* The objects form a row with one common gap g >= 0 which the dragged
\* object overlaps in y.
EquallySpacedRow(row, dragged, g, threshold) ==
    /\ g >= 0
    /\ \A i \in 1..(Len(row) - 1) : gapX(row[i], row[i + 1]) = g
    /\ \A i \in 1..Len(row) :
          rangesOverlap(dragged.top, dragged.bottom, row[i].top, row[i].bottom, threshold * 2)

\* A row candidate at x with spacing g and the given number of gap segments.
RowProposal(candidates, x, g, segments) ==
    \E i \in 1..Len(candidates) :
        /\ candidates[i].info.pattern = "row"
        /\ candidates[i].position.x = x
        /\ candidates[i].info.spacing = g
        /\ Len(candidates[i].info.gaps) = segments

\* The dragged object lies past the right end of the row, its gap to the
\* last object within the threshold of g.
PastRowEnd(row, dragged, g, threshold) ==
    /\ Len(row) >= 3
    /\ EquallySpacedRow(row, dragged, g, threshold)
    /\ dragged.left >= row[Len(row)].right
    /\ Abs(gapX(row[Len(row)], dragged) - g) <= threshold

\* C11: when the dragged object lies past the end of a row of n >= 3 equally
\* spaced objects, its gap to the last one within snapThreshold of the row's
\* gap g, detectDistribution proposes a row candidate at x = last.right + g
\* with spacing g and one gap segment for every gap of the completed row.
C11_RowExtension ==
    (DistributionReturned /\ call.config.snapToDistribution) =>
        LET row == CallRow
            dragged == draggedToBounds(call.draggedBounds, call.draggedId)
            g == gapX(row[1], row[2])
        IN PastRowEnd(row, dragged, g, call.config.snapThreshold) =>
              RowProposal(ret.value, row[Len(row)].right + g, g, Len(row))

AxisDetectorReturned == call.fn \in {"detectRowDistribution", "detectColumnDistribution"} /\ ret.done

\* The fields and the sorted candidates of a call of the row or the column detector.
CallFields == IF call.fn = "detectRowDistribution" THEN RowFields ELSE ColumnFields

CallSorted ==
    SortByField(IF call.fn = "detectRowDistribution"
                THEN RowCandidates(call.dragged, call.objects, call.threshold)
                ELSE ColumnCandidates(call.dragged, call.objects, call.threshold),
                CallFields.center)

\* The snap distances of the insertion slots that qualify.
SlotDistances(f, dragged, sorted, threshold) ==
    {Abs(dragged[f.lo] - InsertionPos(f, dragged, sorted[i], sorted[i + 1])) :
        i \in {j \in 1..(Len(sorted) - 1) :
                  InsertionQualifies(f, dragged, sorted[j], sorted[j + 1], threshold)}}

\* The snap distances of the existing gaps that the dragged object's gap
\* to a neighbour nearly matches.
MatchDistances(f, dragged, sorted, leftNeighbor, rightNeighbor, threshold) ==
    {Abs(dragged[f.lo] - (leftNeighbor[1][f.hi] + GapAlong(f, sorted[i], sorted[i + 1]))) :
        i \in {j \in 1..(Len(sorted) - 1) :
                  /\ leftNeighbor # <<>>
                  /\ GapAlong(f, sorted[j], sorted[j + 1]) >= 0
                  /\ GapNearlyMatches(GapAlong(f, leftNeighbor[1], dragged),
                                      GapAlong(f, sorted[j], sorted[j + 1]), threshold)}}
    \cup
    {Abs(dragged[f.lo] - (rightNeighbor[1][f.lo] - GapAlong(f, sorted[i], sorted[i + 1]) - SizeAlong(f, dragged))) :
        i \in {j \in 1..(Len(sorted) - 1) :
                  /\ rightNeighbor # <<>>
                  /\ GapAlong(f, sorted[j], sorted[j + 1]) >= 0
                  /\ GapNearlyMatches(GapAlong(f, dragged, rightNeighbor[1]),
                                      GapAlong(f, sorted[j], sorted[j + 1]), threshold)}}

CallMatchDistances(f, dragged, sorted, withDragged, threshold) ==
    MatchDistances(f, dragged, sorted,
                   LeftNeighborOf(withDragged, IndexOfId(withDragged, dragged.id)),
                   RightNeighborOf(withDragged, IndexOfId(withDragged, dragged.id)), threshold)

\* An insertion between two neighbours lists three objects, a gap match four.
IsInsertion(candidate) == Len(candidate.info.objectIds) = 3

\* C12: the candidate returned by the row or the column detector has the
\* smallest snap distance of the candidates of its kind that qualify: of
\* the insertion slots when it is an insertion, of the matching existing
\* gaps when it is a gap match.
C12_BestCandidate ==
    (AxisDetectorReturned /\ ret.value # <<>>) =>
        LET f == CallFields
            sorted == CallSorted
            best == ret.value[1]
        IN \A d \in (IF IsInsertion(best)
                     THEN SlotDistances(f, call.dragged, sorted, call.threshold)
                     ELSE CallMatchDistances(f, call.dragged, sorted,
                              SortByField(sorted \o <<call.dragged>>, f.center), call.threshold)) :
              best.distance <= d

\* The number of objects listed in a candidate's info.objectIds.
Participants(candidate) ==
    Cardinality({candidate.info.objectIds[i] : i \in 1..Len(candidate.info.objectIds)})

\* C13: every candidate returned by detectDistribution has the score
\* max(0, (threshold - distance) / threshold) * (1 + min(n / 5, 1) * 0.5),
\* with its own snap distance and n the number of objects listed in its
\* info.objectIds.
C13_ScoreFormula ==
    DistributionReturned =>
        \A i \in 1..Len(ret.value) :
            ret.value[i].score
            = Mul(Max2(0, Div(call.config.snapThreshold - ret.value[i].distance, call.config.snapThreshold)),
                  Unit + Mul(Min2(Div(P(Participants(ret.value[i])), P(5)), Unit), Half))

RowDetectorReturned == call.fn = "detectRowDistribution" /\ ret.done

\* The object of the call with the given id.
CallObjectById(id) == call.objects[IndexOfId(call.objects, id)]

\* L and R are neighbours in the row the detector sorted.
AdjacentInRow(sorted, leftId, rightId) ==
    \E i \in 1..(Len(sorted) - 1) : sorted[i].id = leftId /\ sorted[i + 1].id = rightId

\* The proposed x leaves the same space, the candidate's spacing, on both sides.
CenteredBetween(x, draggedWidth, left, right, spacing) ==
    /\ x - left.right = spacing
    /\ right.left - (x + draggedWidth) = spacing
    /\ spacing >= 0

\* C14: an insertion-between candidate of detectRowDistribution for adjacent
\* objects L and R proposes an x with x - L.right = R.left - (x + draggedWidth)
\* = info.spacing >= 0, the dragged left edge within threshold of x, the
\* dragged object's own y, and exactly two gap segments of length info.spacing.
C14_RowInsertion ==
    (RowDetectorReturned /\ ret.value # <<>> /\ IsInsertion(ret.value[1])) =>
        LET c == ret.value[1]
            left == CallObjectById(c.info.objectIds[1])
            right == CallObjectById(c.info.objectIds[3])
        IN /\ AdjacentInRow(CallSorted, left.id, right.id)
           /\ CenteredBetween(c.position.x, call.dragged.right - call.dragged.left,
                              left, right, c.info.spacing)
           /\ Abs(call.dragged.left - c.position.x) <= call.threshold
           /\ c.position.y = call.dragged.bounds.y
           /\ Len(c.info.gaps) = 2
           /\ \A i \in 1..Len(c.info.gaps) : c.info.gaps[i].distance = c.info.spacing

\* C14 witness: the dragged object held off the ideal position of a slot
\* wider than itself, and moved into it.
C14_Witness ==
    /\ RowDetectorReturned
    /\ ret.value # <<>>
    /\ IsInsertion(ret.value[1])
    /\ ret.value[1].info.spacing > 0
    /\ ret.value[1].distance > 0
    /\ ret.value[1].position.x # call.dragged.left
    /\ call.dragged.bounds.y # 0
    /\ Len(ret.value[1].info.gaps) = 2

(***************************************************************************)
(* Hierarchy weight: getHierarchyWeight and getAncestorChain over groups   *)
(* nested up to five deep, with and without the parent function.           *)
(***************************************************************************)
\* top holds the groups g1 (d, a and the subgroup s1 with c), g2 (b) and the
\* nest n1 > n2 > n3 > n4 (e); solo holds f; r has no parent.
GroupTree ==
    [id \in {"d", "a", "c", "s1", "b", "g1", "g2", "e", "n4", "n3", "n2", "n1", "f"} |->
        CASE id \in {"d", "a", "s1"} -> "g1"
          [] id = "c" -> "s1"
          [] id = "b" -> "g2"
          [] id \in {"g1", "g2", "n1"} -> "top"
          [] id = "e" -> "n4"
          [] id = "n4" -> "n3"
          [] id = "n3" -> "n2"
          [] id = "n2" -> "n1"
          [] id = "f" -> "solo"]

\* No object has a parent.
NoGroups == [id \in {} |-> NoId]

HierarchyIds == {"d", "a", "c", "b", "e", "f", "r", "g1"}

ParentFunctions == {GroupTree, ParentMap, NoGroups}

HierarchyCalls ==
    {[fn |-> "getHierarchyWeight", draggedId |-> d, targetSourceId |-> t, getParent |-> g] :
        d \in HierarchyIds, t \in HierarchyIds \cup {NoId},
        g \in {<<>>} \cup {<<f>> : f \in ParentFunctions}}
    \cup {[fn |-> "getAncestorChain", id |-> d, getParent |-> f] :
            d \in HierarchyIds \cup {"s1", "n4", "top"}, f \in ParentFunctions}

InitHierarchy ==
    /\ call \in HierarchyCalls
    /\ ret = Pending

GetHierarchyWeightCall ==
    /\ call.fn = "getHierarchyWeight"
    /\ ~ret.done
    /\ ret' = Returned(getHierarchyWeight(call.draggedId, call.targetSourceId, call.getParent))
    /\ UNCHANGED call

GetAncestorChainCall ==
    /\ call.fn = "getAncestorChain"
    /\ ~ret.done
    /\ ret' = Returned(getAncestorChain(call.id, call.getParent))
    /\ UNCHANGED call

NextHierarchy == GetHierarchyWeightCall \/ GetAncestorChainCall

SpecHierarchy == InitHierarchy /\ [][NextHierarchy]_vars

HierarchyReturned == call.fn = "getHierarchyWeight" /\ ret.done

\* The parents known to a call: none when no parent function is given.
CallParents == IF call.getParent = <<>> THEN NoGroups ELSE call.getParent[1]

\* The positions (from 0) in the two chains of the common ancestors.
SharedAt(draggedAncestors, targetAncestors) ==
    {<<i - 1, j - 1>> : i \in 1..Len(draggedAncestors), j \in 1..Len(targetAncestors)}
    \cap {p \in (0..Len(draggedAncestors)) \X (0..Len(targetAncestors)) :
             draggedAncestors[p[1] + 1] = targetAncestors[p[2] + 1]}

\* The depth of the nearest common ancestor: the larger of its positions.
SharedDepth(shared) ==
    CHOOSE depth \in {Max2(p[1], p[2]) : p \in shared} :
        \A p \in shared : depth <= Max2(p[1], p[2])

SameParent(draggedAncestors, targetAncestors) ==
    /\ draggedAncestors # <<>>
    /\ targetAncestors # <<>>
    /\ draggedAncestors[1] = targetAncestors[1]

\* The weight the five cases give to a source other than the dragged object.
RelationWeight(draggedAncestors, targetAncestors, shared) ==
    IF SameParent(draggedAncestors, targetAncestors) THEN Unit
    ELSE IF shared # {} THEN Max2(3 * (Unit \div 10), Unit - SharedDepth(shared) * 2 * (Unit \div 10))
    ELSE 2 * (Unit \div 10)

\* C15: getHierarchyWeight returns 0 when the target's source is the dragged
\* object, 0.5 when the target has no source, 1.0 when both have the same
\* immediate parent, max(0.3, 1 - 0.2 * depth) when they only share a farther
\* ancestor at depth, and 0.2 when they share no ancestor, for every parent
\* function and without one.
C15_HierarchyCases ==
    HierarchyReturned =>
        ret.value = IF call.targetSourceId = call.draggedId THEN 0
                    ELSE IF call.targetSourceId = NoId THEN Half
                    ELSE RelationWeight(getAncestorChain(call.draggedId, CallParents),
                                        getAncestorChain(call.targetSourceId, CallParents),
                                        SharedAt(getAncestorChain(call.draggedId, CallParents),
                                                 getAncestorChain(call.targetSourceId, CallParents)))

(***************************************************************************)
(* View-boundary targets against object targets: computeSnap with the      *)
(* default weights on a dragged object whose snap point meets a boundary   *)
(* line and the same line of another object, the scores computed in        *)
(* binary64.                                                               *)
(***************************************************************************)
\* A multiple of 1/8 is a double, and so are the sums and products of a few
\* of them.
Dyadic(v) == v % (Unit \div 8) = 0

\* Every sub-score, weight and priority that enters the candidate's weighted
\* sum is dyadic: no operation of the sum rounds.
ExactlyScored(c, weights) ==
    /\ \A k \in {"distance", "grabProximity", "hierarchy", "direction", "velocity"} : Dyadic(weights[k])
    /\ Dyadic(c.breakdown.distance.v) /\ Dyadic(c.breakdown.grabProximity)
    /\ Dyadic(c.breakdown.hierarchy) /\ Dyadic(c.breakdown.direction)
    /\ Dyadic(c.breakdown.velocity) /\ Dyadic(c.breakdown.typePriority)
    /\ Dyadic(c.target.priority)

\* The directions in which the scores of the pushed candidates may have been
\* rounded: none for a NaN or an exactly computed score.
Roundings(pushed, weights) ==
    {r \in [1..Len(pushed) -> {-1, 0, 1}] :
        \A i \in 1..Len(pushed) :
            (pushed[i].score.nan \/ ExactlyScored(pushed[i], weights)) => r[i] = 0}

WithRounding(pushed, rounding) ==
    [i \in 1..Len(pushed) |-> [pushed[i] EXCEPT !.score.err = rounding[i]]]

\* The candidates computeSnap pushes for a call.
CallPushed(context, objects, viewBounds, config, getParent) ==
    PushedCandidates(SnapTargetsOf(context, objects, viewBounds, config),
                     getSnapPoints(context.draggedBounds), context, objects,
                     viewBounds, config, getParent)

\* computeSnap with the pushed candidates' scores rounded as given.
computeSnapRounded(context, objects, pushed, rounding) ==
    SnapOfPushed(WithRounding(pushed, rounding), getSnapPoints(context.draggedBounds),
                 context, objects)

\* An object whose vertical centre line is the view's (x = 200), and one
\* whose left edge is the view's (x = 0), both below the view.
TieObjects ==
    {Obj(id, Bounds(x, 500, 60, 40), 0, Undefined, Undefined) : id \in {"a", "b", "r"}, x \in {170, 0}}

\* The dragged centre line 8, 4 and 0 before and 8 after x = 200; the dragged
\* left edge 8 and 4 before, on and 4 after x = 0.
TieDragXs == {142, 146, 150, 158, -8, -4, 0, 4}

\* An eighth of a pixel before x = 200.
TieDragFine == [Dragged(150, 50, Undefined) EXCEPT !.x = @ - Unit \div 8]

TieDragged == {Dragged(x, 50, Undefined) : x \in TieDragXs} \cup {TieDragFine}

\* Held at the left edge or at the centre; at rest, or moving to the right
\* or to the left and down.
TieGestures ==
    {<<g, m>> : g \in {Pt(0, Half), Pt(Half, Half)},
                m \in {Pt(0, 0), Pt(6 * (Unit \div 10), 8 * (Unit \div 10)),
                       Pt(-6 * (Unit \div 10), 8 * (Unit \div 10))}}

TieVelocities == {P(2), P(10)}

TieConfig == [DEFAULT_SNAP_CONFIG EXCEPT !.snapToGrid = FALSE]

TieCalls ==
    {[fn |-> "computeSnap",
      context |-> [draggedId |-> "d", draggedBounds |-> b, grabPoint |-> g[1],
                   movementDirection |-> g[2], velocity |-> v],
      objects |-> <<o>>, viewBounds |-> ViewBounds, config |-> TieConfig, getParent |-> gp] :
        b \in TieDragged, g \in TieGestures, v \in TieVelocities, o \in TieObjects,
        gp \in GetParents}

InitTie ==
    /\ call \in TieCalls
    /\ ret = Pending

ComputeSnapRoundedCall ==
    /\ call.fn = "computeSnap"
    /\ ~ret.done
    /\ \E rounding \in Roundings(CallPushed(call.context, call.objects, call.viewBounds, call.config, call.getParent), call.config.weights) :
          ret' = Returned(computeSnapRounded(call.context, call.objects,
                     CallPushed(call.context, call.objects, call.viewBounds, call.config, call.getParent),
                     rounding))
    /\ UNCHANGED call

NextTie == ComputeSnapRoundedCall

SpecTie == InitTie /\ [][NextTie]_vars

\* The target is a line of the view boundary that an object of the call
\* offers too: same kind, axis and value.
OnBoundaryLine(target, viewBounds) ==
    \E i \in 1..Len(generatePageBoundaryTargets(viewBounds)) :
        /\ generatePageBoundaryTargets(viewBounds)[i].type = target.type
        /\ generatePageBoundaryTargets(viewBounds)[i].axis = target.axis
        /\ generatePageBoundaryTargets(viewBounds)[i].value = target.value

\* C16: with the default weights, an object target that lies on a line of
\* the view boundary of the same kind, axis and value is never an active
\* snap: computeSnap selects the boundary target, whatever the hierarchy
\* relation between the dragged object and the object.
C16_BoundaryWinsTies ==
    SnapReturned =>
        \A i \in 1..Len(ret.value.activeSnaps) :
            ~(/\ ret.value.activeSnaps[i].target.sourceObjectId # NoId
              /\ OnBoundaryLine(ret.value.activeSnaps[i].target, call.viewBounds))

(***************************************************************************)
(* Resize snapping (snapping/snap-engine: computeResizeSnap).              *)
(***************************************************************************)
EdgeInfo(edge, axis) == [edge |-> edge, axis |-> axis]

getResizingEdges(handle) ==
    CASE handle = "n" -> <<EdgeInfo("top", "y")>>
      [] handle = "s" -> <<EdgeInfo("bottom", "y")>>
      [] handle = "e" -> <<EdgeInfo("right", "x")>>
      [] handle = "w" -> <<EdgeInfo("left", "x")>>
      [] handle = "nw" -> <<EdgeInfo("top", "y"), EdgeInfo("left", "x")>>
      [] handle = "ne" -> <<EdgeInfo("top", "y"), EdgeInfo("right", "x")>>
      [] handle = "sw" -> <<EdgeInfo("bottom", "y"), EdgeInfo("left", "x")>>
      [] handle = "se" -> <<EdgeInfo("bottom", "y"), EdgeInfo("right", "x")>>

\* Mutant of applyEdgeSnap: the left and the top edge move the whole box.
applyEdgeSnapShifting(bounds, edge, offset) ==
    CASE edge = "left" -> [bounds EXCEPT !.x = @ + offset]
      [] edge = "right" -> [bounds EXCEPT !.width = @ + offset]
      [] edge = "top" -> [bounds EXCEPT !.y = @ + offset]
      [] edge = "bottom" -> [bounds EXCEPT !.height = @ + offset]

applyEdgeSnap(bounds, edge, offset) ==
    CASE edge = "left" -> [bounds EXCEPT !.x = @ + offset, !.width = @ - offset]
      [] edge = "right" -> [bounds EXCEPT !.width = @ + offset]
      [] edge = "top" -> [bounds EXCEPT !.y = @ + offset, !.height = @ - offset]
      [] edge = "bottom" -> [bounds EXCEPT !.height = @ + offset]

\* { value, sourceId, sourceBounds }
SizeTarget(value, object) == [value |-> value, sourceId |-> object.id, sourceBounds |-> getAABB(object)]

\* The first object of each distinct AABB size (field width or height), in
\* the order of the objects.
RECURSIVE SizeTargetsFrom(_, _, _, _)
SizeTargetsFrom(objects, excludeIds, field, seen) ==
    IF objects = <<>> THEN <<>>
    ELSE IF Head(objects).id \in excludeIds \/ getAABB(Head(objects))[field] \in seen
    THEN SizeTargetsFrom(Tail(objects), excludeIds, field, seen)
    ELSE <<SizeTarget(getAABB(Head(objects))[field], Head(objects))>>
         \o SizeTargetsFrom(Tail(objects), excludeIds, field, seen \cup {getAABB(Head(objects))[field]})

getSizeTargets(objects, excludeIds) ==
    [widths |-> SizeTargetsFrom(objects, excludeIds, "width", {}),
     heights |-> SizeTargetsFrom(objects, excludeIds, "height", {})]

\* targets.filter(t => t.axis === axis && Math.abs(t.value - currentValue) <= config.snapThreshold)
MatchingTargets(targets, axis, currentValue, config) ==
    SelectSeq(targets, LAMBDA t : t.axis = axis /\ Abs(t.value - currentValue) <= config.snapThreshold)

\* (snapThreshold - distance) / snapThreshold * typePriority: NaN when the
\* threshold is 0 (the distance is 0 then).
ResizeScore(target, distance, config) ==
    IF config.snapThreshold = 0 THEN NaN
    ELSE Num(Mul(Div(config.snapThreshold - distance, config.snapThreshold),
                 getTypePriorityWeight(target, config)))

\* The loop `if (score > bestScore)` from -Infinity: the first target of the
\* highest score, none when every score is NaN.
BestTargetOf(matching, currentValue, config) ==
    IF matching = <<>> \/ config.snapThreshold = 0 THEN <<>>
    ELSE <<matching[CHOOSE i \in 1..Len(matching) :
              /\ \A j \in 1..Len(matching) :
                    ResizeScore(matching[j], Abs(matching[j].value - currentValue), config).v
                    <= ResizeScore(matching[i], Abs(matching[i].value - currentValue), config).v
              /\ \A j \in 1..(i - 1) :
                    ResizeScore(matching[j], Abs(matching[j].value - currentValue), config).v
                    < ResizeScore(matching[i], Abs(matching[i].value - currentValue), config).v]>>

\* The active snap of an edge snapped to its best target.
EdgeSnapOf(bestTarget, currentValue, currentSnapPoints, viewBounds, config, sourceBounds) ==
    [target |-> bestTarget, distance |-> Abs(bestTarget.value - currentValue),
     score |-> ResizeScore(bestTarget, Abs(bestTarget.value - currentValue), config),
     guideStart |-> createGuideEndpoints(bestTarget, currentSnapPoints, viewBounds, sourceBounds).guideStart,
     guideEnd |-> createGuideEndpoints(bestTarget, currentSnapPoints, viewBounds, sourceBounds).guideEnd,
     sourceBounds |-> sourceBounds]

\* acc is [bounds, snaps]: snappedBounds and activeSnaps so far.
EdgeSnapped(acc, edge, best, currentValue, currentSnapPoints, objects, viewBounds, config) ==
    IF best = <<>> THEN acc
    ELSE [bounds |-> applyEdgeSnap(acc.bounds, edge, best[1].value - currentValue),
          snaps |-> Append(acc.snaps,
                           EdgeSnapOf(best[1], currentValue, currentSnapPoints, viewBounds, config,
                                      ObjectBoundsOf(objects, best[1].sourceObjectId)))]

\* One pass of the loop over the resizing edges.
EdgeStep(acc, edgeInfo, targets, currentSnapPoints, objects, viewBounds, config) ==
    EdgeSnapped(acc, edgeInfo.edge,
                BestTargetOf(MatchingTargets(targets, edgeInfo.axis, currentSnapPoints[edgeInfo.edge], config),
                             currentSnapPoints[edgeInfo.edge], config),
                currentSnapPoints[edgeInfo.edge], currentSnapPoints, objects, viewBounds, config)

RECURSIVE EdgePhase(_, _, _, _, _, _, _)
EdgePhase(acc, resizingEdges, targets, currentSnapPoints, objects, viewBounds, config) ==
    IF resizingEdges = <<>> THEN acc
    ELSE EdgePhase(EdgeStep(acc, Head(resizingEdges), targets, currentSnapPoints, objects, viewBounds, config),
                   Tail(resizingEdges), targets, currentSnapPoints, objects, viewBounds, config)

HasEdge(resizingEdges, edges) == \E i \in 1..Len(resizingEdges) : resizingEdges[i].edge \in edges

\* A size indicator: on the source object (sourceId, sourceBounds given) or
\* on the resized object (NoId, <<>>).
SizeSnap(axis, sizeTarget, distance, guideStart, guideEnd, sourceId, sourceBounds) ==
    [target |-> Target("size", axis, sizeTarget.value, sourceId, NoId, P(1)),
     distance |-> distance, score |-> Num(P(1)),
     guideStart |-> guideStart, guideEnd |-> guideEnd,
     sourceBounds |-> sourceBounds, matchedSize |-> sizeTarget.value]

\* snappedBounds with the matched width: the right edge moves if it is
\* being resized, else the left one.
WidthMatched(bounds, resizingEdges, sizeTarget) ==
    IF HasEdge(resizingEdges, {"right"}) THEN [bounds EXCEPT !.width = sizeTarget.value]
    ELSE IF HasEdge(resizingEdges, {"left"})
    THEN [bounds EXCEPT !.x = @ - (sizeTarget.value - bounds.width), !.width = sizeTarget.value]
    ELSE bounds

HeightMatched(bounds, resizingEdges, sizeTarget) ==
    IF HasEdge(resizingEdges, {"bottom"}) THEN [bounds EXCEPT !.height = sizeTarget.value]
    ELSE IF HasEdge(resizingEdges, {"top"})
    THEN [bounds EXCEPT !.y = @ - (sizeTarget.value - bounds.height), !.height = sizeTarget.value]
    ELSE bounds

\* The two indicators of a matched width, the second drawn on the bounds as
\* already matched.
WidthSnaps(sizeTarget, distance, matched) ==
    <<SizeSnap("x", sizeTarget, distance,
               Pt(sizeTarget.sourceBounds.x, sizeTarget.sourceBounds.y - P(15)),
               Pt(sizeTarget.sourceBounds.x + sizeTarget.value, sizeTarget.sourceBounds.y - P(15)),
               sizeTarget.sourceId, <<sizeTarget.sourceBounds>>),
      SizeSnap("x", sizeTarget, distance,
               Pt(matched.x, matched.y - P(15)), Pt(matched.x + sizeTarget.value, matched.y - P(15)),
               NoId, <<>>)>>

HeightSnaps(sizeTarget, distance, matched) ==
    <<SizeSnap("y", sizeTarget, distance,
               Pt(sizeTarget.sourceBounds.x - P(15), sizeTarget.sourceBounds.y),
               Pt(sizeTarget.sourceBounds.x - P(15), sizeTarget.sourceBounds.y + sizeTarget.value),
               sizeTarget.sourceId, <<sizeTarget.sourceBounds>>),
      SizeSnap("y", sizeTarget, distance,
               Pt(matched.x - P(15), matched.y), Pt(matched.x - P(15), matched.y + sizeTarget.value),
               NoId, <<>>)>>

\* The first size target within the threshold of the current size, if any.
FirstSizeMatch(sizeTargets, current, config) ==
    SelectSeq(sizeTargets, LAMBDA s : Abs(current - s.value) <= config.snapThreshold)

WidthPhase(acc, resizingEdges, matches) ==
    IF ~HasEdge(resizingEdges, {"left", "right"}) \/ matches = <<>> THEN acc
    ELSE [bounds |-> WidthMatched(acc.bounds, resizingEdges, matches[1]),
          snaps |-> acc.snaps \o WidthSnaps(matches[1], Abs(acc.bounds.width - matches[1].value),
                                            WidthMatched(acc.bounds, resizingEdges, matches[1]))]

\* currentHeight is the height of snappedBounds before the width was matched.
HeightPhase(acc, resizingEdges, matches) ==
    IF ~HasEdge(resizingEdges, {"top", "bottom"}) \/ matches = <<>> THEN acc
    ELSE [bounds |-> HeightMatched(acc.bounds, resizingEdges, matches[1]),
          snaps |-> acc.snaps \o HeightSnaps(matches[1], Abs(acc.bounds.height - matches[1].value),
                                             HeightMatched(acc.bounds, resizingEdges, matches[1]))]

\* The size matching of the edge-snapped bounds: widths, then heights.
SizePhase(acc, resizingEdges, sizeTargets, config) ==
    HeightPhase(WidthPhase(acc, resizingEdges, FirstSizeMatch(sizeTargets.widths, acc.bounds.width, config)),
                resizingEdges, FirstSizeMatch(sizeTargets.heights, acc.bounds.height, config))

ResizeSnapResult(acc) == [snappedBounds |-> acc.bounds, activeSnaps |-> acc.snaps, candidates |-> <<>>]

ResizeSnapOfEdges(acc, resizingEdges, objects, excludeIds, config) ==
    ResizeSnapResult(IF config.snapToSizes
                     THEN SizePhase(acc, resizingEdges, getSizeTargets(objects, excludeIds), config)
                     ELSE acc)

\* { x, y, width, height } of the current bounds.
PlainBounds(b) == [x |-> b.x, y |-> b.y, width |-> b.width, height |-> b.height]

computeResizeSnap(context, objects, viewBounds, config, getParent) ==
    IF ~config.enabled
    THEN [snappedBounds |-> context.currentBounds, activeSnaps |-> <<>>, candidates |-> <<>>]
    ELSE ResizeSnapOfEdges(
             EdgePhase([bounds |-> PlainBounds(context.currentBounds), snaps |-> <<>>],
                       getResizingEdges(context.handle),
                       generateAllSnapTargets(objects, {context.objectId}, viewBounds, config, <<>>),
                       getSnapPoints(context.currentBounds), objects, viewBounds, config),
             getResizingEdges(context.handle), objects, {context.objectId}, config)

(***************************************************************************)
(* Resize-snap calls: a 100 x 80 or slightly smaller box at (100, 50) or   *)
(* (104, 50), resized by each of the eight handles next to one or two      *)
(* other objects.                                                          *)
(***************************************************************************)
\* a: its left edge (197) next to the right edge of the resized box;
\* b: its right edge (104) next to the left edge of the box, its top edge
\*    (128) next to the bottom edge, 104 x 84;
\* c: its top edge (46) next to the top edge of the box, 92 x 77.
ResizeObjA == Obj("a", Bounds(197, 200, 60, 40), 0, Undefined, Undefined)
ResizeObjB == Obj("b", Bounds(0, 128, 104, 84), 0, Undefined, Undefined)
ResizeObjC == Obj("c", Bounds(300, 46, 92, 77), 0, Undefined, Undefined)

ResizeCatalog == {ResizeObjA, ResizeObjB, ResizeObjC, ObjR}

ResizeObjects ==
    {<<o>> : o \in ResizeCatalog}
    \cup {<<pr[1], pr[2]>> : pr \in {q \in ResizeCatalog \X ResizeCatalog : q[1] # q[2]}}

ResizeXs == {100, 104}
ResizeWidths == {100, 91}
ResizeHeights == {80, 72}

Resized(x, w, h, rotation) ==
    [x |-> P(x), y |-> P(50), width |-> P(w), height |-> P(h),
     rotation |-> rotation, pivotX |-> Undefined, pivotY |-> Undefined]

\* The unrotated boxes and one box turned by 90 degrees.
ResizedBounds ==
    {Resized(x, w, h, 0) : x \in ResizeXs, w \in ResizeWidths, h \in ResizeHeights}
    \cup {Resized(100, 100, 80, P(90))}

\* Objects and sizes; objects only; a zero threshold; a grid of 50; disabled.
ResizeConfigs ==
    {[DEFAULT_SNAP_CONFIG EXCEPT !.snapToGrid = FALSE],
     [DEFAULT_SNAP_CONFIG EXCEPT !.snapToGrid = FALSE, !.snapToSizes = FALSE],
     [DEFAULT_SNAP_CONFIG EXCEPT !.snapToGrid = FALSE, !.snapThreshold = 0],
     [DEFAULT_SNAP_CONFIG EXCEPT !.gridSize = P(50)],
     [DEFAULT_SNAP_CONFIG EXCEPT !.enabled = FALSE]}

\* originalBounds and delta are not read by computeResizeSnap.
ResizeSnapCalls ==
    {[fn |-> "computeResizeSnap",
      context |-> [currentBounds |-> b, objectId |-> "d", handle |-> h],
      objects |-> os, viewBounds |-> ViewBounds, config |-> c, getParent |-> <<>>] :
        b \in ResizedBounds, h \in Handles, os \in ResizeObjects, c \in ResizeConfigs}

InitResizeSnap ==
    /\ call \in ResizeSnapCalls
    /\ ret = Pending

ComputeResizeSnapCall ==
    /\ call.fn = "computeResizeSnap"
    /\ ~ret.done
    /\ ret' = Returned(computeResizeSnap(call.context, call.objects, call.viewBounds, call.config, call.getParent))
    /\ UNCHANGED call

NextResizeSnap == ComputeResizeSnapCall

SpecResizeSnap == InitResizeSnap /\ [][NextResizeSnap]_vars

ResizeSnapReturned == ret.done /\ call.fn = "computeResizeSnap"

\* The coordinate of an edge of a box.
EdgeCoordinate(b, edge) ==
    CASE edge = "left" -> b.x
      [] edge = "right" -> b.x + b.width
      [] edge = "top" -> b.y
      [] edge = "bottom" -> b.y + b.height

ActiveEdges(handle) == {getResizingEdges(handle)[i].edge : i \in 1..Len(getResizingEdges(handle))}

SnapsOfType(types) == {i \in 1..Len(ret.value.activeSnaps) : ret.value.activeSnaps[i].target.type \in types}

\* C17: after computeResizeSnap on unrotated bounds, every edge of
\* snappedBounds that the handle does not activate has the coordinate it has
\* in currentBounds, whether edges were snapped, sizes matched, or both.
C17_InactiveEdgesFixed ==
    (ResizeSnapReturned /\ call.context.currentBounds.rotation = 0)
    => \A edge \in {"left", "right", "top", "bottom"} \ ActiveEdges(call.context.handle) :
          EdgeCoordinate(ret.value.snappedBounds, edge) = EdgeCoordinate(call.context.currentBounds, edge)

\* A corner handle whose two edges were snapped and whose width and height
\* were then matched, the box having changed.
C17_Witness ==
    /\ ResizeSnapReturned
    /\ call.context.currentBounds.rotation = 0
    /\ call.context.handle = "nw"
    /\ Cardinality(SnapsOfType({"edge", "center", "grid"})) = 2
    /\ Cardinality(SnapsOfType({"size"})) = 4
    /\ ret.value.snappedBounds.x # call.context.currentBounds.x
    /\ ret.value.snappedBounds.y # call.context.currentBounds.y

SizeField(axis) == IF axis = "x" THEN "width" ELSE "height"

AxisEdges(axis) == IF axis = "x" THEN {"left", "right"} ELSE {"top", "bottom"}

\* The objects of the call other than the resized one.
NonExcluded == {call.objects[i] : i \in {j \in 1..Len(call.objects) : call.objects[j].id # call.context.objectId}}

SizeSnapsOf(axis) == {i \in SnapsOfType({"size"}) : ret.value.activeSnaps[i].target.axis = axis}

\* The result matches size m along the axis: the dimension is m, and there
\* are two size snaps of that axis, both with matchedSize m, one with the
\* id and the AABB of an object of size m, one without a source, drawn
\* along the resized box.
SizeMatched(axis, m) ==
    /\ ret.value.snappedBounds[SizeField(axis)] = m
    /\ Cardinality(SizeSnapsOf(axis)) = 2
    /\ \A i \in SizeSnapsOf(axis) : ret.value.activeSnaps[i].matchedSize = m
    /\ \E i \in SizeSnapsOf(axis) : \E o \in NonExcluded :
          /\ ret.value.activeSnaps[i].target.sourceObjectId = o.id
          /\ ret.value.activeSnaps[i].sourceBounds = <<getAABB(o)>>
          /\ getAABB(o)[SizeField(axis)] = m
    /\ \E i \in SizeSnapsOf(axis) :
          /\ ret.value.activeSnaps[i].target.sourceObjectId = NoId
          /\ ret.value.activeSnaps[i].guideStart[axis] = ret.value.snappedBounds[axis]
          /\ ret.value.activeSnaps[i].guideEnd[axis] = ret.value.snappedBounds[axis] + m

\* The AABB sizes of other objects within the threshold of the size the box
\* is being resized to.
SizesInReach(axis) ==
    {getAABB(o)[SizeField(axis)] : o \in {p \in NonExcluded :
        Abs(call.context.currentBounds[SizeField(axis)] - getAABB(p)[SizeField(axis)]) <= call.config.snapThreshold}}

\* C18: when snapping and snapToSizes are enabled, the handle resizes the
\* width (height), and the width (height) of currentBounds is within
\* snapThreshold of the AABB width (height) of another object, then the
\* width (height) of snappedBounds is such a size exactly and there are
\* exactly two size snaps of that axis, one with the source object's id and
\* bounds and one on the resized box, both with that matchedSize.
C18_SizeMatching ==
    (ResizeSnapReturned /\ call.config.enabled /\ call.config.snapToSizes)
    => \A axis \in {"x", "y"} :
          (ActiveEdges(call.context.handle) \cap AxisEdges(axis) # {} /\ SizesInReach(axis) # {})
          => \E m \in SizesInReach(axis) : SizeMatched(axis, m)

\* The pointer displacement of the returned resize in object space, and the
\* size the handle gives without constraints.
CallLocalDelta == unrotateDeltaWithMatrix(ret.currentPoint.x - call.startPoint.x, ret.currentPoint.y - call.startPoint.y, ret.state.rotationMatrix)

CallFreeSize == calculateResizedDimensions(call.handle, call.bounds.width, call.bounds.height, CallLocalDelta[1], CallLocalDelta[2])

CallMinWidth == IF call.minWidth = <<>> THEN P(10) ELSE call.minWidth[1]

CallMinHeight == IF call.minHeight = <<>> THEN P(10) ELSE call.minHeight[1]

\* The driver the handle and the proportional changes allow (either one when
\* the two proportional changes of a corner handle are equal).
DriverAllowed(d) ==
    IF call.handle \in {"e", "w"} THEN d = "width"
    ELSE IF call.handle \in {"n", "s"} THEN d = "height"
    ELSE IF d = "width"
    THEN Div(Abs(CallLocalDelta[1]), call.bounds.width) >= Div(Abs(CallLocalDelta[2]), call.bounds.height)
    ELSE Div(Abs(CallLocalDelta[2]), call.bounds.height) >= Div(Abs(CallLocalDelta[1]), call.bounds.width)

\* The size of ratio r in which the driver keeps its unconstrained value.
DrivenBy(d, r) ==
    IF d = "width" THEN [width |-> CallFreeSize.width, height |-> Div(CallFreeSize.width, r)]
    ELSE [width |-> Mul(CallFreeSize.height, r), height |-> CallFreeSize.height]

ReturnedSize == [width |-> ret.value.width, height |-> ret.value.height]

\* C19: with an aspect ratio r > 0, calculateResizeBounds returns
\* width = r * height with width >= minWidth and height >= minHeight, for
\* every handle and pointer position; and when the size derived from the
\* driver (width for e/w, height for n/s, the dimension with the larger
\* proportional change for corners) respects both minima, it is that size.
C19_AspectLocked ==
    (ResizeReturned /\ call.aspectRatio # <<>>)
    => /\ call.aspectRatio[1] > 0
       /\ ret.value.width = Mul(call.aspectRatio[1], ret.value.height)
       /\ ret.value.width >= CallMinWidth
       /\ ret.value.height >= CallMinHeight
       /\ \E d \in {"width", "height"} :
             /\ DriverAllowed(d)
             /\ (DrivenBy(d, call.aspectRatio[1]).width >= CallMinWidth /\ DrivenBy(d, call.aspectRatio[1]).height >= CallMinHeight)
                => ReturnedSize = DrivenBy(d, call.aspectRatio[1])

\* C19 witness: a corner handle whose height changed proportionally more, so
\* that the height drives: the returned height is the unconstrained one, the
\* width is not, and the size changed.
C19_Witness ==
    /\ ResizeReturned
    /\ call.aspectRatio # <<>>
    /\ call.handle = "se"
    /\ ~DriverAllowed("width")
    /\ ret.value.height = CallFreeSize.height
    /\ ret.value.width # CallFreeSize.width
    /\ ret.value.height # call.bounds.height
    /\ ret.value.width > CallMinWidth
    /\ ret.value.height > CallMinHeight

(***************************************************************************)
(* Group rotation (rotation/rotation-utils: rotateObjectAroundPivot;       *)
(* geometry/math: normalizeAngle).                                         *)
(***************************************************************************)
\* The % of JavaScript for a positive divisor: the remainder has the sign
\* of the dividend.
JsRem(a, b) == IF a >= 0 THEN a % b ELSE -((-a) % b)

\* Mutant of normalizeAngle: a single remainder.
normalizeAngleOnce(angle) == JsRem(angle, P(360))

\* ((angle % 360) + 360) % 360
normalizeAngle(angle) == JsRem(JsRem(angle, P(360)) + P(360), P(360))

\* The centre of the object turned about the group pivot.
NewCenter(objectBounds, groupPivot, deltaAngle) ==
    rotatePointAroundCenter(Pt(objectBounds.x + objectBounds.width \div 2,
                               objectBounds.y + objectBounds.height \div 2),
                            groupPivot, deltaAngle)

rotateObjectAroundPivot(objectBounds, objectRotation, groupPivot, deltaAngle) ==
    [x |-> NewCenter(objectBounds, groupPivot, deltaAngle).x - objectBounds.width \div 2,
     y |-> NewCenter(objectBounds, groupPivot, deltaAngle).y - objectBounds.height \div 2,
     rotation |-> normalizeAngle(objectRotation + deltaAngle)]

(***************************************************************************)
(* Group rotation calls: an object is turned by an angle about the group   *)
(* pivot, the result is applied to it, and it is turned back by the        *)
(* opposite angle.                                                         *)
(***************************************************************************)
GroupBounds == {Bounds(100, 50, 100, 50), Bounds(-50, -25, 50, 100)}

\* The origin, a point between the objects, the centre of the first object.
GroupPivots == {Pt(0, 0), Pt(P(100), P(50)), Pt(P(150), P(75))}

\* Rotations inside and outside [0, 360).
ObjectRotations == {0, P(90), P(350), -P(90), P(720), Atan43, -P(400)}

GroupRotationCalls ==
    {[fn |-> "rotateObjectAroundPivot", objectBounds |-> b, objectRotation |-> r,
      groupPivot |-> gp, deltaAngle |-> d] :
        b \in GroupBounds, r \in ObjectRotations, gp \in GroupPivots, d \in Angles}

InitGroupRotation ==
    /\ call \in GroupRotationCalls
    /\ ret = Pending

\* The object after the first result was applied to it.
TurnedBounds == [call.objectBounds EXCEPT !.x = ret.turned.x, !.y = ret.turned.y]

RotateObjectAroundPivotCall ==
    /\ call.fn = "rotateObjectAroundPivot"
    /\ ret = Pending
    /\ ret' = [done |-> FALSE, turned |-> rotateObjectAroundPivot(call.objectBounds, call.objectRotation, call.groupPivot, call.deltaAngle)]
    /\ UNCHANGED call

RotateBackCall ==
    /\ call.fn = "rotateObjectAroundPivot"
    /\ ret # Pending
    /\ ~ret.done
    /\ ret' = [done |-> TRUE, turned |-> ret.turned, value |-> rotateObjectAroundPivot(TurnedBounds, ret.turned.rotation, call.groupPivot, -call.deltaAngle)]
    /\ UNCHANGED call

NextGroupRotation == RotateObjectAroundPivotCall \/ RotateBackCall

SpecGroupRotation == InitGroupRotation /\ [][NextGroupRotation]_vars

GroupTurned == call.fn = "rotateObjectAroundPivot" /\ ret # Pending

GroupTurnedBack == call.fn = "rotateObjectAroundPivot" /\ ret # Pending /\ ret.done

CenterOf(x, y, b) == Pt(x + b.width \div 2, y + b.height \div 2)

\* The point turned by the angle about the centre.
TurnedAbout(point, center, deg) ==
    Pt(center.x + Mul(point.x - center.x, Cos(deg)) - Mul(point.y - center.y, Sin(deg)),
       center.y + Mul(point.x - center.x, Sin(deg)) + Mul(point.y - center.y, Cos(deg)))

\* C20: rotateObjectAroundPivot returns the top-left whose centre (for the
\* unchanged width and height) is the old centre turned by delta about the
\* group pivot, and the rotation (objectRotation + delta) mod 360, which is
\* in [0, 360); turning by delta and then by -delta about the same pivot
\* restores x and y, and the rotation modulo 360.
C20_GroupRotation ==
    /\ GroupTurned
       => /\ CenterOf(ret.turned.x, ret.turned.y, call.objectBounds)
             = TurnedAbout(CenterOf(call.objectBounds.x, call.objectBounds.y, call.objectBounds), call.groupPivot, call.deltaAngle)
          /\ ret.turned.rotation = (call.objectRotation + call.deltaAngle) % P(360)
          /\ ret.turned.rotation >= 0
          /\ ret.turned.rotation < P(360)
    /\ GroupTurnedBack
       => /\ ret.value.x = call.objectBounds.x
          /\ ret.value.y = call.objectBounds.y
          /\ (ret.value.rotation - call.objectRotation) % P(360) = 0
          /\ ret.value.rotation >= 0
          /\ ret.value.rotation < P(360)

\* C20 witness: an object of negative rotation turned by atan(4/3) about a
\* pivot off its centre and back: it moved in x and y, its rotation wrapped
\* around, and the way back did not end on the stored rotation.
C20_Witness ==
    /\ GroupTurnedBack
    /\ call.deltaAngle = -Atan43
    /\ call.objectRotation = -P(90)
    /\ ret.turned.x # call.objectBounds.x
    /\ ret.turned.y # call.objectBounds.y
    /\ ret.turned.rotation = P(360) - P(90) - Atan43
    /\ ret.value.rotation = P(270)

(***************************************************************************)
(* The snapping hook (snapping/useSnapping.ts).  For a hook instance call  *)
(* holds the options it was created with and what its consumer passes, and *)
(* ret holds its refs and state: recentPositions (the velocity history),   *)
(* activeSnaps and allCandidates, the value of the last call, the number   *)
(* of calls made, and dragged, the positions of all snapDrag calls since   *)
(* the last clearSnaps (a history variable of the model).                  *)
(***************************************************************************)
\* slice(-n)
LastN(s, n) == IF Len(s) <= n THEN s ELSE SubSeq(s, Len(s) - n + 1, Len(s))

\* The sum of the distances between neighbours.
RECURSIVE PathLength(_)
PathLength(positions) ==
    IF Len(positions) < 2 THEN 0
    ELSE Hypot(positions[2].x - positions[1].x, positions[2].y - positions[1].y) + PathLength(Tail(positions))

calculateVelocity(positions) ==
    IF Len(positions) < 2 THEN 0
    ELSE PathLength(LastN(positions, 5)) \div Len(LastN(positions, 5))

normalizeDirection(delta) ==
    IF Hypot(delta.x, delta.y) = 0 THEN Pt(0, 0)
    ELSE Pt(Div(delta.x, Hypot(delta.x, delta.y)), Div(delta.y, Hypot(delta.x, delta.y)))

\* Mutant of PushPosition: nothing is evicted.
PushPositionUnbounded(recentPositions, bounds) == Append(recentPositions, Pt(bounds.x, bounds.y))

\* recentPositions.current.push(...); if (length > 10) shift()
PushPosition(recentPositions, bounds) ==
    IF Len(recentPositions) + 1 > 10 THEN Tail(Append(recentPositions, Pt(bounds.x, bounds.y)))
    ELSE Append(recentPositions, Pt(bounds.x, bounds.y))

\* The context snapDrag builds from its parameters and the history.
DragContext(params, recentPositions) ==
    [draggedBounds |-> params.bounds, draggedId |-> params.objectId, grabPoint |-> params.grabPoint,
     movementDirection |-> normalizeDirection(params.delta),
     velocity |-> calculateVelocity(recentPositions)]

\* The result of snapDrag for the history as already updated.  The
\* parameter excludeIds is read into finalExcludeIds, which nothing uses.
snapDragResult(params, recentPositions, options) ==
    computeSnap(DragContext(params, recentPositions), options.objects, options.viewBounds, options.config, options.getParent)

snapResizeResult(params, options) ==
    computeResizeSnap([currentBounds |-> params.currentBounds, objectId |-> params.objectId, handle |-> params.handle],
                      options.objects, options.viewBounds, options.config, options.getParent)

HookAfterDrag(hook, params, result) ==
    [hook EXCEPT !.recentPositions = PushPosition(hook.recentPositions, params.bounds),
                 !.activeSnaps = result.activeSnaps, !.allCandidates = result.candidates,
                 !.value = [fn |-> "snapDrag", params |-> params, position |-> result.snappedPosition,
                            activeSnaps |-> result.activeSnaps, candidates |-> result.candidates],
                 !.calls = @ + 1,
                 !.dragged = Append(@, Pt(params.bounds.x, params.bounds.y))]

HookAfterResize(hook, params, result) ==
    [hook EXCEPT !.activeSnaps = result.activeSnaps, !.allCandidates = result.candidates,
                 !.value = [fn |-> "snapResize", params |-> params, bounds |-> result.snappedBounds,
                            activeSnaps |-> result.activeSnaps, candidates |-> result.candidates],
                 !.calls = @ + 1]

HookAfterClear(hook) ==
    [hook EXCEPT !.recentPositions = <<>>, !.activeSnaps = <<>>, !.allCandidates = <<>>,
                 !.value = [fn |-> "clearSnaps"], !.calls = @ + 1, !.dragged = <<>>]

(***************************************************************************)
(* Calls on one useSnapping instance.                                      *)
(***************************************************************************)
\* The most calls made on one instance: enough to fill the history and
\* evict from it.
MaxSnapCalls == 12

\* The calls made on an instance whose consumer passes exclusion sets.
MaxExcludeCalls == 2

\* The dragged object 100 x 80 picked up at (100, 130) and held 3 to the
\* left or 3 to the right of there, its bottom edge 10 below a's top edge.
HookDragXs == {97, 103}

HookDragParams(x, excludeIds) ==
    [bounds |-> Dragged(x, 130, Undefined), objectId |-> "d", delta |-> Pt(P(x - 100), 0),
     grabPoint |-> Pt(Half, Half), excludeIds |-> excludeIds]

HookResizeParams ==
    [currentBounds |-> Resized(100, 91, 80, 0), objectId |-> "d", handle |-> "e"]

NewHook ==
    [recentPositions |-> <<>>, activeSnaps |-> <<>>, allCandidates |-> <<>>,
     value |-> [fn |-> "useSnapping"], calls |-> 0, dragged |-> <<>>]

HookOptions(objects, config) ==
    [objects |-> objects, config |-> config, viewBounds |-> ViewBounds, getParent |-> <<>>]

\* One instance over the object a, its consumer passing no exclusion set.
InitSnapping ==
    /\ call = [fn |-> "useSnapping", options |-> HookOptions(<<ObjA>>, TieConfig),
               excludeIds |-> <<>>, maxCalls |-> MaxSnapCalls]
    /\ ret = NewHook

SnapDragCall ==
    /\ call.fn = "useSnapping"
    /\ ret.calls < call.maxCalls
    /\ \E x \in HookDragXs :
          ret' = HookAfterDrag(ret, HookDragParams(x, call.excludeIds),
                               snapDragResult(HookDragParams(x, call.excludeIds),
                                              PushPosition(ret.recentPositions, Dragged(x, 130, Undefined)),
                                              call.options))
    /\ UNCHANGED call

SnapResizeCall ==
    /\ call.fn = "useSnapping"
    /\ ret.calls < call.maxCalls
    /\ ret' = HookAfterResize(ret, HookResizeParams, snapResizeResult(HookResizeParams, call.options))
    /\ UNCHANGED call

ClearSnapsCall ==
    /\ call.fn = "useSnapping"
    /\ ret.calls < call.maxCalls
    /\ ret' = HookAfterClear(ret)
    /\ UNCHANGED call

NextSnapping == SnapDragCall \/ SnapResizeCall \/ ClearSnapsCall

SpecSnapping == InitSnapping /\ [][NextSnapping]_vars

\* C21: on one useSnapping instance the velocity history holds at most 10
\* positions, and they are the positions of the latest snapDrag calls since
\* the last clearSnaps, in call order: snapDrag appends and evicts the
\* oldest, snapResize leaves the history alone, clearSnaps empties it.
C21_BoundedHistory ==
    call.fn = "useSnapping"
    => /\ Len(ret.recentPositions) <= 10
       /\ ret.recentPositions = LastN(ret.dragged, 10)
       /\ ret.value.fn = "clearSnaps" => ret.recentPositions = <<>>

\* C21 witness: after twelve snapDrag calls at differing positions two
\* positions were evicted and ten remain.
C21_Witness ==
    /\ call.fn = "useSnapping"
    /\ Len(ret.dragged) = 12
    /\ ret.dragged[1] # ret.dragged[2]
    /\ ret.dragged[2] # ret.dragged[3]
    /\ Len(ret.recentPositions) = 10
    /\ ret.recentPositions[1] = ret.dragged[3]

(***************************************************************************)
(* Pointer sessions (hooks/useDraggable.ts, hooks/useResizable.ts).  For a *)
(* pointer hook call holds the hook and its options, and ret holds:        *)
(*   isActive     the state isDragging / isResizing;                       *)
(*   stateRef     stateRef.current;                                        *)
(*   listeners    the sessions whose handlePointerMove and handlePointerUp *)
(*                closures are registered on window, in the order of       *)
(*                registration (the three listeners of a session are added *)
(*                and removed together);                                   *)
(*   sessions     the number of sessions started;                          *)
(*   snapping     the useSnapping instance whose snapDrag / snapResize the *)
(*                hook was given;                                          *)
(*   down         the pointers that are down;                              *)
(*   event        the last pointer event;                                  *)
(*   delivered    the callbacks the handling of the last event made;       *)
(*   events       the number of pointer events so far;                     *)
(*   firstHistory the velocity history right after the first snapDrag call *)
(*                of the current session (<<>> before it), a history       *)
(*                variable of the model.                                   *)
(* transformCoordinates is the identity.                                   *)
(***************************************************************************)
NoElement == "null"

IdleDragRef ==
    [startX |-> 0, startY |-> 0, element |-> NoElement, pointerId |-> -1,
     objectStartX |-> 0, objectStartY |-> 0, grabPoint |-> Pt(Half, Half), currentPosition |-> Pt(0, 0)]

Callback(name, payload) == [name |-> name, payload |-> payload]

Deliver(s, name, payload) == [s EXCEPT !.delivered = Append(@, Callback(name, payload))]

\* The body of useDraggable's handlePointerDown past the guards.
DragStarted(s, options, e) ==
    [Deliver(s, "onDragStart", Pt(e.x, e.y)) EXCEPT
        !.stateRef = [startX |-> e.x, startY |-> e.y, element |-> "element", pointerId |-> e.pointerId,
                      objectStartX |-> options.objectBounds.x, objectStartY |-> options.objectBounds.y,
                      grabPoint |-> Pt(Half, Half),
                      currentPosition |-> Pt(options.objectBounds.x, options.objectBounds.y)],
        !.isActive = TRUE,
        !.listeners = Append(@, s.sessions + 1),
        !.sessions = @ + 1,
        !.firstHistory = <<>>]

DragHandlePointerDown(s, options, e) ==
    IF options.disabled \/ e.button # 0 THEN s ELSE DragStarted(s, options, e)

\* The parameters handlePointerMove passes to snapDrag.
DragSnapParams(s, options, e) ==
    [bounds |-> [x |-> s.stateRef.objectStartX + (e.x - s.stateRef.startX),
                 y |-> s.stateRef.objectStartY + (e.y - s.stateRef.startY),
                 width |-> options.objectBounds.width, height |-> options.objectBounds.height,
                 rotation |-> 0, pivotX |-> Half, pivotY |-> Half],
     objectId |-> options.objectId,
     delta |-> Pt(e.x - s.stateRef.startX, e.y - s.stateRef.startY),
     grabPoint |-> s.stateRef.grabPoint,
     excludeIds |-> <<{options.objectId}>>]

\* The hook after snapDrag was called with the parameters.
DragSnapped(s, params, options) ==
    [s EXCEPT !.snapping = HookAfterDrag(@, params,
                               snapDragResult(params, PushPosition(s.snapping.recentPositions, params.bounds),
                                              options.snapping)),
              !.firstHistory = IF @ = <<>> THEN PushPosition(s.snapping.recentPositions, params.bounds) ELSE @]

\* The rest of handlePointerMove: the final position is tracked and
\* reported.
DragMoved(s, position) ==
    Deliver([s EXCEPT !.stateRef.currentPosition = position], "onDragMove", position)

DragMovedSnapped(t) == DragMoved(t, t.snapping.value.position)

\* The snapped position after snapDrag was called, or the proposed position
\* when the hook was given no snapDrag.
DragMovedBy(s, params, options) ==
    IF options.snapDrag
    THEN DragMovedSnapped(DragSnapped(s, params, options))
    ELSE DragMoved(s, Pt(params.bounds.x, params.bounds.y))

\* One handlePointerMove closure run on a pointermove.
DragHandlePointerMove(s, options, e) ==
    IF s.stateRef.element = NoElement \/ e.pointerId # s.stateRef.pointerId THEN s
    ELSE DragMovedBy(s, DragSnapParams(s, options, e), options)

\* One handlePointerUp closure, that of the session, run on a pointerup or
\* a pointercancel.
DragHandlePointerUp(s, session, e) ==
    IF s.stateRef.element = NoElement \/ e.pointerId # s.stateRef.pointerId THEN s
    ELSE [Deliver(s, "onDragEnd", s.stateRef.currentPosition) EXCEPT
             !.isActive = FALSE,
             !.listeners = SelectSeq(@, LAMBDA l : l # session)]

IdleResizeRef ==
    [resizeState |-> <<>>, element |-> NoElement, pointerId |-> -1,
     currentBounds |-> [x |-> 0, y |-> 0, width |-> 0, height |-> 0], aspectRatio |-> <<>>]

\* The body of useResizable's handleResizeStart past the guard.
ResizeStarted(s, options, handle, e) ==
    [Deliver(s, "onResizeStart", options.bounds) EXCEPT
        !.stateRef = [resizeState |-> <<initResizeState(Pt(e.x, e.y), handle, options.bounds,
                                                        Pt(Half, Half), options.rotation)>>,
                      element |-> "element", pointerId |-> e.pointerId,
                      currentBounds |-> options.bounds, aspectRatio |-> options.aspectRatio],
        !.isActive = TRUE,
        !.listeners = Append(@, s.sessions + 1),
        !.sessions = @ + 1,
        !.firstHistory = <<>>]

handleResizeStart(s, options, handle, e) ==
    IF options.disabled THEN s ELSE ResizeStarted(s, options, handle, e)

WithRotation(bounds, options) ==
    [x |-> bounds.x, y |-> bounds.y, width |-> bounds.width, height |-> bounds.height,
     rotation |-> options.rotation, pivotX |-> Half, pivotY |-> Half]

\* The rest of handlePointerMove: the new bounds are tracked and reported.
ResizeMoved(s, newBounds) ==
    Deliver([s EXCEPT !.stateRef.currentBounds = newBounds], "onResize", newBounds)

\* The hook after snapResize was called with the parameters.
ResizeSnapped(s, params, options) ==
    [s EXCEPT !.snapping = HookAfterResize(@, params, snapResizeResult(params, options.snapping))]

ResizeMovedSnapped(t) == ResizeMoved(t, t.snapping.value.bounds)

\* The new bounds, snapped when the hook was given a snapResize.
ResizeMovedTo(s, newBounds, options) ==
    IF options.snapResize
    THEN ResizeMovedSnapped(ResizeSnapped(s, [currentBounds |-> WithRotation(newBounds, options),
                                              objectId |-> options.objectId,
                                              handle |-> s.stateRef.resizeState[1].handle], options))
    ELSE ResizeMoved(s, newBounds)

\* One handlePointerMove closure of useResizable run on a pointermove.
ResizeHandlePointerMove(s, options, e) ==
    IF s.stateRef.resizeState = <<>> \/ s.stateRef.element = NoElement \/ e.pointerId # s.stateRef.pointerId
    THEN s
    ELSE ResizeMovedTo(s, calculateResizeBounds(s.stateRef.resizeState[1], Pt(e.x, e.y), options.minWidth,
                                                options.minHeight, s.stateRef.aspectRatio),
                       options)

\* One handlePointerUp closure of useResizable, that of the session, run on
\* a pointerup or a pointercancel.
ResizeHandlePointerUp(s, session, e) ==
    IF e.pointerId # s.stateRef.pointerId THEN s
    ELSE [(IF s.stateRef.resizeState # <<>> THEN Deliver(s, "onResizeEnd", s.stateRef.currentBounds) ELSE s) EXCEPT
             !.stateRef = IdleResizeRef,
             !.isActive = FALSE,
             !.listeners = SelectSeq(@, LAMBDA l : l # session)]

HandlePointerMove(s, fn, options, e) ==
    IF fn = "useDraggable" THEN DragHandlePointerMove(s, options, e) ELSE ResizeHandlePointerMove(s, options, e)

HandlePointerUp(s, fn, session, e) ==
    IF fn = "useDraggable" THEN DragHandlePointerUp(s, session, e) ELSE ResizeHandlePointerUp(s, session, e)

\* window dispatches an event to the listeners registered when the
\* dispatch began, in their order, skipping those removed meanwhile.
RECURSIVE DispatchMove(_, _, _, _, _)
DispatchMove(s, registered, fn, options, e) ==
    IF registered = <<>> THEN s
    ELSE DispatchMove(IF \E i \in 1..Len(s.listeners) : s.listeners[i] = Head(registered)
                      THEN HandlePointerMove(s, fn, options, e) ELSE s,
                      Tail(registered), fn, options, e)

RECURSIVE DispatchUp(_, _, _, _)
DispatchUp(s, registered, fn, e) ==
    IF registered = <<>> THEN s
    ELSE DispatchUp(IF \E i \in 1..Len(s.listeners) : s.listeners[i] = Head(registered)
                    THEN HandlePointerUp(s, fn, Head(registered), e) ELSE s,
                    Tail(registered), fn, e)

\* The state as a pointer event arrives.
Arrived(s, e, down) == [s EXCEPT !.event = e, !.delivered = <<>>, !.events = @ + 1, !.down = down]

(***************************************************************************)
(* Pointer events on one useDraggable or useResizable instance.            *)
(***************************************************************************)
\* The most pointer events of one behaviour.
MaxEvents == 6

PointerIds == {1, 2}

\* The button of a pointerdown: primary or secondary.
Buttons == {0, 2}

\* The dragged object 100 x 80 at (100, 130) is picked up at its centre and
\* moved 3 to the left or to the right.
GrabPosition == Pt(P(150), P(170))

DragMoveXs == {147, 153}

DragOptions(disabled, snapDrag) ==
    [disabled |-> disabled, objectId |-> "d", objectBounds |-> Bounds(100, 130, 100, 80),
     snapDrag |-> snapDrag, snapping |-> HookOptions(<<ObjA>>, TieConfig)]

\* The resized object 100 x 80 at (100, 50): a handle of its right edge is
\* pressed and moved 9 to the left or 4 to the right.
HandlePosition == Pt(P(200), P(90))

ResizeMoveXs == {191, 204}

PressedHandles == {"e", "se"}

ResizableOptions(disabled, snapResize) ==
    [disabled |-> disabled, objectId |-> "d", bounds |-> Bounds(100, 50, 100, 80), rotation |-> 0,
     minWidth |-> <<P(10)>>, minHeight |-> <<P(10)>>, aspectRatio |-> <<>>,
     snapResize |-> snapResize, snapping |-> HookOptions(<<ResizeObjA, ResizeObjB>>, TieConfig)]

\* [disabled, snapping function given]
HookVariants == {<<FALSE, TRUE>>, <<FALSE, FALSE>>, <<TRUE, TRUE>>}

PointerHooks ==
    {[fn |-> "useDraggable", options |-> DragOptions(v[1], v[2])] : v \in HookVariants}
    \cup {[fn |-> "useResizable", options |-> ResizableOptions(v[1], v[2])] : v \in HookVariants}

NoEvent == [type |-> "none", pointerId |-> -1]

InitPointer ==
    /\ call \in PointerHooks
    /\ ret = [isActive |-> FALSE,
              stateRef |-> IF call.fn = "useDraggable" THEN IdleDragRef ELSE IdleResizeRef,
              listeners |-> <<>>, sessions |-> 0, snapping |-> NewHook, down |-> {},
              event |-> NoEvent, delivered |-> <<>>, events |-> 0, firstHistory |-> <<>>]

PointerEvent(type, pointerId, position, button) ==
    [type |-> type, pointerId |-> pointerId, x |-> position.x, y |-> position.y, button |-> button]

\* A pointer goes down on the draggable element.
DragPointerDown ==
    /\ call.fn = "useDraggable"
    /\ ret.events < MaxEvents
    /\ \E p \in PointerIds \ ret.down, b \in Buttons :
          ret' = DragHandlePointerDown(Arrived(ret, PointerEvent("pointerdown", p, GrabPosition, b), ret.down \cup {p}),
                                       call.options, PointerEvent("pointerdown", p, GrabPosition, b))
    /\ UNCHANGED call

\* A pointer goes down on a resize handle.
ResizePointerDown ==
    /\ call.fn = "useResizable"
    /\ ret.events < MaxEvents
    /\ \E p \in PointerIds \ ret.down, h \in PressedHandles :
          ret' = handleResizeStart(Arrived(ret, PointerEvent("pointerdown", p, HandlePosition, 0), ret.down \cup {p}),
                                   call.options, h, PointerEvent("pointerdown", p, HandlePosition, 0))
    /\ UNCHANGED call

MovePositions == IF call.fn = "useDraggable" THEN {Pt(P(x), P(170)) : x \in DragMoveXs} ELSE {Pt(P(x), P(90)) : x \in ResizeMoveXs}

\* A pointer moves: window dispatches pointermove.
PointerMove ==
    /\ call.fn \in {"useDraggable", "useResizable"}
    /\ ret.events < MaxEvents
    /\ \E p \in PointerIds, at \in MovePositions :
          ret' = DispatchMove(Arrived(ret, PointerEvent("pointermove", p, at, 0), ret.down),
                              ret.listeners, call.fn, call.options, PointerEvent("pointermove", p, at, 0))
    /\ UNCHANGED call

\* A pointer that is down is released: window dispatches pointerup.
PointerUp ==
    /\ call.fn \in {"useDraggable", "useResizable"}
    /\ ret.events < MaxEvents
    /\ \E p \in ret.down :
          ret' = DispatchUp(Arrived(ret, PointerEvent("pointerup", p, GrabPosition, 0), ret.down \ {p}),
                            ret.listeners, call.fn, PointerEvent("pointerup", p, GrabPosition, 0))
    /\ UNCHANGED call

\* The gesture of a pointer that is down is cancelled: window dispatches
\* pointercancel, to the same handlePointerUp closures.
PointerCancel ==
    /\ call.fn \in {"useDraggable", "useResizable"}
    /\ ret.events < MaxEvents
    /\ \E p \in ret.down :
          ret' = DispatchUp(Arrived(ret, PointerEvent("pointercancel", p, GrabPosition, 0), ret.down \ {p}),
                            ret.listeners, call.fn, PointerEvent("pointercancel", p, GrabPosition, 0))
    /\ UNCHANGED call

NextPointer == DragPointerDown \/ ResizePointerDown \/ PointerMove \/ PointerUp \/ PointerCancel

SpecPointer == InitPointer /\ [][NextPointer]_vars

PointerHook == call.fn \in {"useDraggable", "useResizable"}

DeliveredNamed(names) == SelectSeq(ret.delivered, LAMBDA c : c.name \in names)

\* C22: at the first snapDrag call of every drag session the velocity
\* history holds no position of an earlier session: right after that call
\* it holds the position of that call and nothing else.
C22_HistoryClearedBetweenSessions ==
    (call.fn = "useDraggable" /\ ret.firstHistory # <<>>) => Len(ret.firstHistory) = 1

\* The step handles an event of the pointer of the session in progress.
ActivePointerEvent(types) ==
    /\ PointerHook
    /\ ret.isActive
    /\ ret'.events = ret.events + 1
    /\ ret'.event.type \in types
    /\ ret'.event.pointerId = ret.stateRef.pointerId

\* C23: when a pointercancel of the active pointer arrives during a
\* useDraggable or useResizable session, the session ends (isDragging or
\* isResizing false, its listeners removed from window) and neither
\* onDragEnd nor onResizeEnd is called with the current position or bounds.
C23_CancelDiscards ==
    [][ActivePointerEvent({"pointercancel"})
        => /\ ~ret'.isActive
           /\ ret'.listeners = <<>>
           /\ SelectSeq(ret'.delivered, LAMBDA c : c.name \in {"onDragEnd", "onResizeEnd"}) = <<>>]_vars

\* C26: once useResizable has handled the pointerup or pointercancel of the
\* active pointer, none of its listeners remains on window and onResizeEnd
\* was called exactly once; and no pointermove calls onResize more than
\* once; whatever resize starts and pointer events came before.
C26_NoListenerLeft ==
    [][call.fn = "useResizable"
        => /\ ActivePointerEvent({"pointerup", "pointercancel"})
              => /\ ret'.listeners = <<>>
                 /\ Len(SelectSeq(ret'.delivered, LAMBDA c : c.name = "onResizeEnd")) = 1
           /\ Len(SelectSeq(ret'.delivered, LAMBDA c : c.name = "onResize")) <= 1]_vars

(***************************************************************************)
(* Calls on useSnapping instances whose consumer passes an exclusion set.  *)
(***************************************************************************)
\* The object lists the instances are over.
ExcludeObjects == {<<ObjA>>, <<ObjA, ObjB>>, <<ObjB, ObjA>>}

\* The exclusion sets a consumer passes as params.excludeIds (<<>>: none).
ExcludeIdSets == {<<>>, <<{"d"}>>, <<{"a"}>>, <<{"d", "a"}>>, <<{"a", "b"}>>}

InitExclude ==
    /\ call \in {[fn |-> "useSnapping", options |-> HookOptions(objects, TieConfig),
                  excludeIds |-> excludeIds, maxCalls |-> MaxExcludeCalls] :
                    objects \in ExcludeObjects, excludeIds \in ExcludeIdSets}
    /\ ret = NewHook

SpecExclude == InitExclude /\ [][NextSnapping]_vars

\* The objects the targets of a result's candidates and active snaps come
\* from.
SnapSources(value) ==
    {value.candidates[i].target.sourceObjectId : i \in DOMAIN value.candidates}
        \cup {value.activeSnaps[i].target.sourceObjectId : i \in DOMAIN value.activeSnaps}

\* C24: when snapDrag is called with params.excludeIds, no candidate and no
\* active snap it returns comes from an object whose id is in excludeIds,
\* nor from the dragged object itself.
C24_ExcludeIdsHonoured ==
    (call.fn = "useSnapping" /\ ret.value.fn = "snapDrag" /\ ret.value.params.excludeIds # <<>>)
    => SnapSources(ret.value) \cap (ret.value.params.excludeIds[1] \cup {ret.value.params.objectId}) = {}

\* The edge a handle resizes along an axis (at most one).
ResizedEdges(handle, axis) == ActiveEdges(handle) \cap AxisEdges(axis)

\* C25: after computeResizeSnap on unrotated bounds, every edge, center or
\* grid snap in activeSnaps describes snappedBounds: the edge the handle
\* resizes along the snap's axis lies exactly on the snap's target.value,
\* also when a size was matched in the same call.
C25_SnapsDescribeBounds ==
    (ResizeSnapReturned /\ call.context.currentBounds.rotation = 0)
    => \A i \in SnapsOfType({"edge", "center", "grid"}) :
          \E edge \in ResizedEdges(call.context.handle, ret.value.activeSnaps[i].target.axis) :
             EdgeCoordinate(ret.value.snappedBounds, edge) = ret.value.activeSnaps[i].target.value

(***************************************************************************)
(* Group pivot drag sessions (rotation/useGroupPivot.ts).  For this hook   *)
(* call holds the hook and its options, and ret holds:                     *)
(*   groupPivotState  the state isDragging, pivotX, pivotY, isPivotCustom; *)
(*   stateRef         stateRef.current;                                    *)
(*   listeners        the sessions whose handlePointerMove and             *)
(*                    handlePointerUp closures are registered on window,   *)
(*                    each with the pointer that started it;               *)
(*   sessions         the number of sessions started;                      *)
(*   attached         whether the pivot handle element is inside an svg    *)
(*                    element (ownerSVGElement is not null);               *)
(*   queue            the pointer events the browser has yet to dispatch;  *)
(*   down             the pointers that are down;                          *)
(*   cancelled        the pointers whose last gesture was cancelled;       *)
(*   event, delivered, events   as for the pointer hooks.                  *)
(***************************************************************************)
getSelectionCenter(bounds) == Pt(bounds.x + Div(bounds.width, P(2)), bounds.y + Div(bounds.height, P(2)))

IdlePivotRef == [initialPivot |-> Pt(0, 0), element |-> NoElement]

NewGroupPivot(options) ==
    [groupPivotState |-> [isDragging |-> FALSE, pivotX |-> getSelectionCenter(options.selectionBounds).x,
                          pivotY |-> getSelectionCenter(options.selectionBounds).y, isPivotCustom |-> FALSE],
     stateRef |-> IdlePivotRef, listeners |-> <<>>, sessions |-> 0, attached |-> TRUE,
     queue |-> <<>>, down |-> {}, cancelled |-> {}, event |-> NoEvent, delivered |-> <<>>, events |-> 0]

\* The body of handleGroupPivotDragStart past the guards.
GroupPivotStarted(s, e) ==
    [Deliver(s, "onDragStart", Pt(s.groupPivotState.pivotX, s.groupPivotState.pivotY)) EXCEPT
        !.stateRef = [initialPivot |-> Pt(s.groupPivotState.pivotX, s.groupPivotState.pivotY), element |-> "handle"],
        !.groupPivotState = [@ EXCEPT !.isDragging = TRUE, !.isPivotCustom = TRUE],
        !.sessions = @ + 1,
        !.listeners = Append(@, [session |-> s.sessions + 1, pointerId |-> e.pointerId])]

handleGroupPivotDragStart(s, options, e) ==
    IF options.disabled THEN s
    ELSE IF ~s.attached THEN s
    ELSE GroupPivotStarted(s, e)

\* ownerSVGElement of stateRef.current.element.
PivotSvgOf(s) == s.stateRef.element # NoElement /\ s.attached

\* A session's handlePointerMove; the screen matrix is the identity.
GroupPivotHandlePointerMove(s, e) ==
    IF ~PivotSvgOf(s) THEN s
    ELSE [Deliver(s, "onDrag", Pt(e.x, e.y)) EXCEPT
            !.groupPivotState = [@ EXCEPT !.pivotX = e.x, !.pivotY = e.y]]

\* A session's handlePointerUp: it removes the session's own listeners.
GroupPivotHandlePointerUp(s, listener, e) ==
    IF ~PivotSvgOf(s) THEN s
    ELSE [Deliver(s, "onDragEnd", Pt(e.x, e.y)) EXCEPT
            !.groupPivotState = [@ EXCEPT !.isDragging = FALSE, !.pivotX = e.x, !.pivotY = e.y],
            !.listeners = SelectSeq(@, LAMBDA l : l # listener)]

PivotRegistered(s, listener) == \E i \in 1..Len(s.listeners) : s.listeners[i] = listener

\* window dispatches an event to the listeners registered for its type when
\* the dispatch began, in order of registration, skipping those removed
\* meanwhile.  Only pointermove and pointerup have listeners.
RECURSIVE PivotDispatched(_, _, _)
PivotDispatched(s, registered, e) ==
    IF registered = <<>> THEN s
    ELSE PivotDispatched(IF ~PivotRegistered(s, Head(registered)) THEN s
                         ELSE IF e.type = "pointermove" THEN GroupPivotHandlePointerMove(s, e)
                         ELSE IF e.type = "pointerup" THEN GroupPivotHandlePointerUp(s, Head(registered), e)
                         ELSE s,
                         Tail(registered), e)

(***************************************************************************)
(* Pointer events on one useGroupPivot instance.                           *)
(***************************************************************************)
\* The most pointer events of one behaviour.
MaxPivotEvents == 5

\* The most events waiting to be dispatched.
MaxQueue == 2

\* The selection 100 x 80 at (100, 50), and where the pointer goes.
PivotOptions(disabled) == [selectionBounds |-> Bounds(100, 50, 100, 80), disabled |-> disabled]

PivotPositions == {Pt(P(150), P(90)), Pt(P(160), P(95))}

InitGroupPivot ==
    /\ call \in {[fn |-> "useGroupPivot", options |-> PivotOptions(disabled)] : disabled \in BOOLEAN}
    /\ ret = NewGroupPivot(call.options)

PivotPosted(s, e, down, cancelled) ==
    [s EXCEPT !.queue = Append(@, e), !.events = @ + 1, !.down = down, !.cancelled = cancelled]

CanPost == call.fn = "useGroupPivot" /\ ret.events < MaxPivotEvents /\ Len(ret.queue) < MaxQueue

\* A pointer goes down on the pivot handle.
PivotPointerDown ==
    /\ CanPost
    /\ ret.attached
    /\ \E p \in PointerIds \ ret.down :
          ret' = PivotPosted(ret, PointerEvent("pointerdown", p, Pt(ret.groupPivotState.pivotX, ret.groupPivotState.pivotY), 0),
                             ret.down \cup {p}, ret.cancelled \ {p})
    /\ UNCHANGED call

PivotPointerMove ==
    /\ CanPost
    /\ \E p \in PointerIds, position \in PivotPositions :
          ret' = PivotPosted(ret, PointerEvent("pointermove", p, position, 0), ret.down, ret.cancelled)
    /\ UNCHANGED call

\* A pointer that is down is released.
PivotPointerUp ==
    /\ CanPost
    /\ \E p \in ret.down, position \in PivotPositions :
          ret' = PivotPosted(ret, PointerEvent("pointerup", p, position, 0), ret.down \ {p}, ret.cancelled)
    /\ UNCHANGED call

\* The gesture of a pointer that is down is cancelled; no pointerup follows
\* for it.
PivotPointerCancel ==
    /\ CanPost
    /\ \E p \in ret.down, position \in PivotPositions :
          ret' = PivotPosted(ret, PointerEvent("pointercancel", p, position, 0), ret.down \ {p}, ret.cancelled \cup {p})
    /\ UNCHANGED call

\* The pivot handle is taken out of the svg element (the consumer stops
\* rendering it).
PivotHandleDetached ==
    /\ call.fn = "useGroupPivot"
    /\ ret.attached
    /\ ret.events < MaxPivotEvents
    /\ ret' = [ret EXCEPT !.attached = FALSE, !.events = @ + 1]
    /\ UNCHANGED call

\* The browser dispatches the oldest waiting event: a pointerdown to the
\* handle's onPointerDown, the others to window.
PivotDispatch ==
    /\ call.fn = "useGroupPivot"
    /\ ret.queue # <<>>
    /\ ret' = IF Head(ret.queue).type = "pointerdown"
              THEN handleGroupPivotDragStart([ret EXCEPT !.queue = Tail(@), !.event = Head(ret.queue), !.delivered = <<>>],
                                             call.options, Head(ret.queue))
              ELSE PivotDispatched([ret EXCEPT !.queue = Tail(@), !.event = Head(ret.queue), !.delivered = <<>>],
                                   ret.listeners, Head(ret.queue))
    /\ UNCHANGED call

NextGroupPivot ==
    \/ PivotPointerDown
    \/ PivotPointerMove
    \/ PivotPointerUp
    \/ PivotPointerCancel
    \/ PivotHandleDetached
    \/ PivotDispatch

SpecGroupPivot == InitGroupPivot /\ [][NextGroupPivot]_vars

\* The browser dispatches every event that waits.
FairGroupPivot == SpecGroupPivot /\ WF_vars(PivotDispatch)

\* A session is registered whose pointer is no longer down: it was released
\* or its gesture was cancelled.
PivotReleased ==
    /\ call.fn = "useGroupPivot"
    /\ \E i \in 1..Len(ret.listeners) : ret.listeners[i].pointerId \notin ret.down

PivotEnded == call.fn = "useGroupPivot" /\ ~ret.groupPivotState.isDragging /\ ret.listeners = <<>>

\* C27: every group-pivot drag session ends: once the pointer that started
\* a session was released or its gesture cancelled, eventually isDragging
\* is false and no listener of a session is left on window.
C27_SessionEnds == PivotReleased ~> PivotEnded

(***************************************************************************)
(* generateGridTargets, loop by loop (snapping/snap-targets.ts).  While    *)
(* the call runs, ret is [done |-> FALSE, axis, v, targets]: the loop that *)
(* is running, its loop variable and the targets pushed so far.            *)
(***************************************************************************)
\* Math.floor(a / b) and Math.ceil(a / b) for b # 0 of either sign.
FloorQuotient(a, b) == IF b > 0 THEN a \div b ELSE (-a) \div (-b)
CeilQuotient(a, b) == IF b > 0 THEN -((-a) \div b) ELSE -(a \div (-b))

\* Math.floor(a / gridSize) * gridSize: for gridSize 0 the quotient is NaN
\* or infinite, and its product with 0 is NaN.
GridStart(a, gridSize) == IF gridSize = 0 THEN NaN ELSE Num(FloorQuotient(a, gridSize) * gridSize)
GridEnd(a, gridSize) == IF gridSize = 0 THEN NaN ELSE Num(CeilQuotient(a, gridSize) * gridSize)

\* startX / startY and endX / endY.
GridStartOf(axis, viewBounds, gridSize) ==
    GridStart(viewBounds[axis] - gridSize * 2, gridSize)
GridEndOf(axis, viewBounds, gridSize) ==
    GridEnd(viewBounds[axis] + viewBounds[SizeField(axis)] + gridSize * 2, gridSize)

\* v <= end, false when either is NaN.
GridLoopCondition(v, end) == ~v.nan /\ ~end.nan /\ v.v <= end.v

GridRunning(axis, v, targets) == [done |-> FALSE, axis |-> axis, v |-> v, targets |-> targets]

\* The most targets pushed by one call.  Only a call whose loop variable
\* moves away from its end (gridSize < 0) pushes as many; its loop condition
\* still holds then, and it is left running, never returned.
MaxGridTargets == 24

GridViews == {Bounds(0, 0, 40, 20), Bounds(-15, 5, 40, 20), Bounds(3, -8, 30, 30)}

GridSizes == {P(-20), P(-10), 0, P(10), P(20)}

InitGrid ==
    /\ call \in {[fn |-> "generateGridTargets", viewBounds |-> viewBounds, gridSize |-> gridSize] :
                    viewBounds \in GridViews, gridSize \in GridSizes}
    /\ ret = GridRunning("x", GridStartOf("x", call.viewBounds, call.gridSize), <<>>)

\* An iteration of either loop: targets.push(...); v += gridSize.
GridPush ==
    /\ call.fn = "generateGridTargets"
    /\ ~ret.done
    /\ GridLoopCondition(ret.v, GridEndOf(ret.axis, call.viewBounds, call.gridSize))
    /\ Len(ret.targets) < MaxGridTargets
    /\ ret' = GridRunning(ret.axis, Num(ret.v.v + call.gridSize),
                          Append(ret.targets, Target("grid", ret.axis, ret.v.v, NoId, NoId, BASE_PRIORITIES.grid)))
    /\ UNCHANGED call

\* The loop over x ends and the loop over y begins.
GridNextAxis ==
    /\ call.fn = "generateGridTargets"
    /\ ~ret.done
    /\ ret.axis = "x"
    /\ ~GridLoopCondition(ret.v, GridEndOf("x", call.viewBounds, call.gridSize))
    /\ ret' = GridRunning("y", GridStartOf("y", call.viewBounds, call.gridSize), ret.targets)
    /\ UNCHANGED call

\* The loop over y ends: return targets.
GridReturn ==
    /\ call.fn = "generateGridTargets"
    /\ ~ret.done
    /\ ret.axis = "y"
    /\ ~GridLoopCondition(ret.v, GridEndOf("y", call.viewBounds, call.gridSize))
    /\ ret' = Returned(ret.targets)
    /\ UNCHANGED call

NextGrid == GridPush \/ GridNextAxis \/ GridReturn

SpecGrid == InitGrid /\ [][NextGrid]_vars

\* A call that can take a step takes it.
FairGrid == SpecGrid /\ WF_vars(NextGrid)

\* The multiples of gridSize from lo * gridSize to hi * gridSize.
GridMultiples(axis, lo, hi, gridSize) ==
    [i \in 1..(hi - lo + 1) |-> Target("grid", axis, (lo + i - 1) * gridSize, NoId, NoId, P(5))]

ExpectedGrid(viewBounds, gridSize) ==
    GridMultiples("x", FloorQuotient(viewBounds.x - 2 * gridSize, gridSize),
                  CeilQuotient(viewBounds.x + viewBounds.width + 2 * gridSize, gridSize), gridSize)
    \o GridMultiples("y", FloorQuotient(viewBounds.y - 2 * gridSize, gridSize),
                     CeilQuotient(viewBounds.y + viewBounds.height + 2 * gridSize, gridSize), gridSize)

\* C28: generateGridTargets terminates for every gridSize, zero and negative
\* ones included, and for gridSize > 0 the list it returns is exactly the
\* multiples of gridSize from floor((x - 2 gridSize) / gridSize) gridSize to
\* ceil((x + width + 2 gridSize) / gridSize) gridSize on each axis, each
\* with priority 5.
C28_GridTerminates ==
    (call.fn = "generateGridTargets")
    ~> (/\ ret.done
        /\ call.gridSize > 0 => ret.value = ExpectedGrid(call.viewBounds, call.gridSize))

(***************************************************************************)
(* useSelection (hooks/useSelection.ts).  For this hook call holds the     *)
(* hook and its options, and ret holds:                                    *)
(*   selectedIds  the state as of the last render, which the callbacks of  *)
(*                that render have captured;                               *)
(*   next         the value of the last setSelectedIds since the last      *)
(*                render (<<>>: none), which the next render commits;      *)
(*   onChange     the argument of the last onChange call (<<>>: none);     *)
(*   rendered     whether no operation was invoked since the last render;  *)
(*   ops          the number of operations invoked since the render before *)
(*                the first of them;                                       *)
(*   additive     whether all of them were select(id, true),               *)
(*                selectMultiple(ids, true), toggle or deselect;           *)
(*   expected     those operations applied in order to the selection they  *)
(*                started from.                                            *)
(***************************************************************************)
\* The selection an operation makes of the selection it reads.  clear makes
\* no update of an empty selection, to the same effect.
SelectionAfter(op, selectedIds, objects) ==
    CASE op.fn = "select" -> IF op.additive THEN selectedIds \cup {op.id} ELSE {op.id}
      [] op.fn = "selectMultiple" -> IF op.additive THEN selectedIds \cup op.ids ELSE op.ids
      [] op.fn = "deselect" -> selectedIds \ {op.id}
      [] op.fn = "clear" -> {}
      [] op.fn = "selectAll" -> {objects[i].id : i \in 1..Len(objects)}
      [] op.fn = "toggle" -> IF op.id \in selectedIds THEN selectedIds \ {op.id} ELSE selectedIds \cup {op.id}

\* setSelectedIds(newIds); onChange?.(newIds)
updateSelection(s, newIds) == [s EXCEPT !.next = <<newIds>>, !.onChange = <<newIds>>]

\* Whether the operation calls updateSelection: all but clear on an empty
\* captured selection.
Updates(op, selectedIds) == op.fn # "clear" \/ Cardinality(selectedIds) > 0

AdditiveOperation(op) ==
    \/ op.fn \in {"toggle", "deselect"}
    \/ op.fn \in {"select", "selectMultiple"} /\ op.additive

\* The hook after the operation was invoked: the callback computes from the
\* selection it captured at the last render.
Invoked(s, op, objects) ==
    [(IF Updates(op, s.selectedIds) THEN updateSelection(s, SelectionAfter(op, s.selectedIds, objects)) ELSE s) EXCEPT
        !.rendered = FALSE,
        !.ops = IF s.rendered THEN 1 ELSE @ + 1,
        !.additive = AdditiveOperation(op) /\ (s.rendered \/ @),
        !.expected = SelectionAfter(op, IF s.rendered THEN s.selectedIds ELSE @, objects)]

(***************************************************************************)
(* Operations on one useSelection instance.                                *)
(***************************************************************************)
\* The most operations invoked between two renders.
MaxBatch == 3

SelectionObjects == <<ObjA, ObjB, ResizeObjC>>

SelectionIds == {SelectionObjects[i].id : i \in 1..Len(SelectionObjects)}

InitSelection ==
    /\ call = [fn |-> "useSelection", options |-> [objects |-> SelectionObjects]]
    /\ ret \in {[selectedIds |-> initialSelection, next |-> <<>>, onChange |-> <<>>, rendered |-> TRUE,
                 ops |-> 0, additive |-> TRUE, expected |-> initialSelection] :
                    initialSelection \in {{}, {"a"}}}

CanInvoke == call.fn = "useSelection" /\ (ret.rendered \/ ret.ops < MaxBatch)

SelectCall ==
    /\ CanInvoke
    /\ \E id \in SelectionIds, additive \in BOOLEAN :
          ret' = Invoked(ret, [fn |-> "select", id |-> id, additive |-> additive], call.options.objects)
    /\ UNCHANGED call

SelectMultipleCall ==
    /\ CanInvoke
    /\ \E ids \in {{"a", "b"}, {"c"}}, additive \in BOOLEAN :
          ret' = Invoked(ret, [fn |-> "selectMultiple", ids |-> ids, additive |-> additive], call.options.objects)
    /\ UNCHANGED call

DeselectCall ==
    /\ CanInvoke
    /\ \E id \in SelectionIds : ret' = Invoked(ret, [fn |-> "deselect", id |-> id], call.options.objects)
    /\ UNCHANGED call

ClearCall ==
    /\ CanInvoke
    /\ ret' = Invoked(ret, [fn |-> "clear"], call.options.objects)
    /\ UNCHANGED call

SelectAllCall ==
    /\ CanInvoke
    /\ ret' = Invoked(ret, [fn |-> "selectAll"], call.options.objects)
    /\ UNCHANGED call

ToggleCall ==
    /\ CanInvoke
    /\ \E id \in SelectionIds : ret' = Invoked(ret, [fn |-> "toggle", id |-> id], call.options.objects)
    /\ UNCHANGED call

\* The hook re-renders: the last value set becomes the state, and the
\* callbacks are made anew over it.
SelectionRender ==
    /\ call.fn = "useSelection"
    /\ ~ret.rendered
    /\ ret' = [ret EXCEPT !.selectedIds = IF ret.next = <<>> THEN @ ELSE ret.next[1],
                          !.next = <<>>, !.rendered = TRUE]
    /\ UNCHANGED call

NextSelection ==
    \/ SelectCall
    \/ SelectMultipleCall
    \/ DeselectCall
    \/ ClearCall
    \/ SelectAllCall
    \/ ToggleCall
    \/ SelectionRender

SpecSelection == InitSelection /\ [][NextSelection]_vars

\* C29: when two additive operations (select(id, true), selectMultiple(ids,
\* true), toggle, deselect) were invoked one after the other before the hook
\* re-rendered, the selection after the render is both operations applied in
\* order to the previous selection, and the last onChange call reported
\* that set.
C29_NoLostUpdate ==
    (call.fn = "useSelection" /\ ret.rendered /\ ret.ops = 2 /\ ret.additive)
    => /\ ret.selectedIds = ret.expected
       /\ ret.onChange = <<ret.expected>>

(***************************************************************************)
(* Plain resize (geometry/resize: resizeBounds) beside the rotation-aware  *)
(* resize of an unrotated object.                                          *)
(***************************************************************************)
\* The switch of resizeBounds: the bounds moved by the handle, not clamped.
ResizedByHandle(b, handle, deltaX, deltaY) ==
    CASE handle = "nw" -> [x |-> b.x + deltaX, y |-> b.y + deltaY, width |-> b.width - deltaX, height |-> b.height - deltaY]
      [] handle = "n" -> [x |-> b.x, y |-> b.y + deltaY, width |-> b.width, height |-> b.height - deltaY]
      [] handle = "ne" -> [x |-> b.x, y |-> b.y + deltaY, width |-> b.width + deltaX, height |-> b.height - deltaY]
      [] handle = "e" -> [x |-> b.x, y |-> b.y, width |-> b.width + deltaX, height |-> b.height]
      [] handle = "se" -> [x |-> b.x, y |-> b.y, width |-> b.width + deltaX, height |-> b.height + deltaY]
      [] handle = "s" -> [x |-> b.x, y |-> b.y, width |-> b.width, height |-> b.height + deltaY]
      [] handle = "sw" -> [x |-> b.x + deltaX, y |-> b.y, width |-> b.width - deltaX, height |-> b.height + deltaY]
      [] handle = "w" -> [x |-> b.x + deltaX, y |-> b.y, width |-> b.width - deltaX, height |-> b.height]

\* handle.includes(letter)
HandleIncludes(handle, letter) ==
    CASE letter = "w" -> handle \in {"nw", "w", "sw"}
      [] letter = "n" -> handle \in {"nw", "n", "ne"}

\* if (width < minWidth) { if (handle.includes('w')) x = ...; width = minWidth }
MinWidthEnforced(r, originalBounds, handle, minWidth) ==
    IF r.width < minWidth
    THEN [r EXCEPT !.x = IF HandleIncludes(handle, "w") THEN originalBounds.x + originalBounds.width - minWidth ELSE @,
                   !.width = minWidth]
    ELSE r

MinHeightEnforced(r, originalBounds, handle, minHeight) ==
    IF r.height < minHeight
    THEN [r EXCEPT !.y = IF HandleIncludes(handle, "n") THEN originalBounds.y + originalBounds.height - minHeight ELSE @,
                   !.height = minHeight]
    ELSE r

resizeBounds(originalBounds, handle, deltaX, deltaY, minWidth, minHeight) ==
    MinHeightEnforced(MinWidthEnforced(ResizedByHandle(originalBounds, handle, deltaX, deltaY),
                                       originalBounds, handle, minWidth),
                      originalBounds, handle, minHeight)

\* [minWidth, minHeight]: below the object's size, or one of them above it.
RefineMinSizes == {<<P(10), P(10)>>, <<P(40), P(60)>>, <<P(240), P(60)>>, <<P(40), P(120)>>}

RefineCalls ==
    {[fn |-> "resizeBounds", startPoint |-> ResizeStartPoint, handle |-> h, bounds |-> PlainBounds(b), pivot |-> pv,
      delta |-> d, minWidth |-> m[1], minHeight |-> m[2]] :
        h \in Handles, b \in ResizeBounds, pv \in ResizePivots, d \in PointerDeltas, m \in RefineMinSizes}

InitRefine == call \in RefineCalls /\ ret = Pending

\* The same resize computed by resizeBounds and, with rotation 0 and no
\* aspect ratio, by initResizeState and calculateResizeBounds.
ResizeBoundsCall ==
    /\ call.fn = "resizeBounds"
    /\ ret = Pending
    /\ ret' = Returned([plain |-> resizeBounds(call.bounds, call.handle, call.delta.x, call.delta.y,
                                               call.minWidth, call.minHeight),
                        aware |-> calculateResizeBounds(
                                      initResizeState(call.startPoint, call.handle, call.bounds, call.pivot, 0),
                                      Pt(call.startPoint.x + call.delta.x, call.startPoint.y + call.delta.y),
                                      <<call.minWidth>>, <<call.minHeight>>, <<>>)])
    /\ UNCHANGED call

NextRefine == ResizeBoundsCall

SpecRefine == InitRefine /\ [][NextRefine]_vars

\* C30: with rotation 0 and no aspect ratio, calculateResizeBounds over
\* initResizeState(p0, h, b, pivot, 0) at p0 + (dx, dy) returns the bounds
\* resizeBounds(b, h, dx, dy, minW, minH) returns, for every handle, pivot,
\* delta and minimum size.
C30_ResizeRefines ==
    (call.fn = "resizeBounds" /\ ret.done) => ret.value.aware = ret.value.plain
====
